---- MODULE Spec2Model ----
(***************************************************************************)
(* Academic control system: the aggregation layer of the service module    *)
(* (gradeService.calculateAverage, attendanceService.calculateAttendance-  *)
(* Rate), and the class-code join workflow of the student dashboard        *)
(* (handleJoinClass) over the teacher_classes and student_enrollments      *)
(* tables.                                                                 *)
(***************************************************************************)
EXTENDS Integers, Sequences, FiniteSets, TLC

(***************************************************************************)
(* Bounds of the model.                                                    *)
(***************************************************************************)
\* Significand width of the model's binary floating point numbers.  The
\* program computes in IEEE-754 binary64 (53 bits); the model keeps the same
\* arithmetic (round to nearest, ties to even, after every operation) at a
\* width TLC's integers can carry.
Precision == 8
\* Form weights are the decimals k / WeightDen, k \in 0..WeightDen.
WeightDen == 3
\* grade_value and max_value are whole numbers up to MaxPoints.
MaxPoints == 2
\* Longest grade list.
MaxGrades == 2
\* Longest attendance list.
MaxRecords == 4
\* The wall clock runs from January of FirstYear to December of
\* FirstYear + YearSpan.
FirstYear == 2025
YearSpan == 1
\* The most classes the registry holds.
MaxClasses == 2
\* The most rows table grades holds.
MaxGradeRows == 2
\* The most rows table attendance holds.
MaxAttendanceRows == 3
\* Points typed with decimals are the hundredths 0..MaxHundredths.
MaxHundredths == 3

VARIABLES
    grades,        \* the Grade[] handed to gradeService.calculateAverage
    average,       \* what calculateAverage returned
    averageDone,   \* calculateAverage has returned
    attendance,    \* the Attendance[] handed to calculateAttendanceRate
    attendanceRate,\* what calculateAttendanceRate returned
    rateDone,      \* calculateAttendanceRate has returned
    now,           \* the wall clock: [year, month], month zero-indexed
    teacher_classes,      \* the rows of table teacher_classes
    student_enrollments,  \* the rows of table student_enrollments
    pc,            \* per dashboard: where its handleJoinClass call stands
    showJoinModal, \* per dashboard: the join dialog is open
    classCode,     \* per dashboard: the text of the code field
    classData,     \* per dashboard: the class the lookup returned
    joinError,     \* per dashboard: the message the dialog shows
    draws,         \* the results of the Math.random() calls of generateClassCode
    generatedCode, \* what generateClassCode returned
    createAlert,   \* per teacher: handleCreateClass ended in its alert
    profiles,        \* the rows of table profiles
    gradesTable,     \* the rows of table grades
    attendanceTable, \* the rows of table attendance
    request,         \* the last statement an identity sent to the database
    evalStack,       \* the tables whose policies are being evaluated, outermost first
    classes,              \* teacher dashboard: the classes loaded, with their enrollments
    selectedClass,        \* teacher dashboard: the id of the class shown
    activeTab,            \* teacher dashboard: 'grades' or 'attendance'
    enrollmentGrades,     \* teacher dashboard: the grades shown, per enrollment
    enrollmentAttendance, \* teacher dashboard: the attendance shown, per enrollment
    loads,                \* teacher dashboard: the loadEnrollmentData calls not yet returned
    authUsers,       \* the identities registered with the sign-up service
    session,         \* the identity the admin dashboard's client is signed in as
    showUserModal,   \* admin dashboard: the new-user dialog is open
    userAlert,       \* admin dashboard: handleCreateUser ended in its alert
    signedUp,        \* admin dashboard: data.user of the sign-up
    createUserPc     \* admin dashboard: where handleCreateUser stands

aggVars == <<grades, average, averageDone, attendance, attendanceRate, rateDone>>
dbVars == <<teacher_classes, student_enrollments>>
uiVars == <<pc, showJoinModal, classCode, classData, joinError>>
genVars == <<draws, generatedCode, createAlert>>
rlsVars == <<profiles, gradesTable, attendanceTable, request>>
tdVars == <<classes, selectedClass, activeTab, enrollmentGrades, enrollmentAttendance, loads>>
adVars == <<authUsers, session, showUserModal, userAlert, signedUp, createUserPc>>
otherVars == <<evalStack, tdVars, adVars>>

vars == <<grades, average, averageDone, attendance, attendanceRate, rateDone,
          now, teacher_classes, student_enrollments,
          pc, showJoinModal, classCode, classData, joinError,
          draws, generatedCode, createAlert,
          profiles, gradesTable, attendanceTable, request,
          evalStack,
          classes, selectedClass, activeTab, enrollmentGrades, enrollmentAttendance, loads,
          authUsers, session, showUserModal, userAlert, signedUp, createUserPc>>

(***************************************************************************)
(* JavaScript numbers.  A finite non-negative number is <<n, d>>, the      *)
(* rational n/d in lowest terms with d a power of two; n/0 stands for the  *)
(* two non-finite results of a division by zero.                           *)
(***************************************************************************)
RECURSIVE Pow2(_)
Pow2(k) == IF k = 0 THEN 1 ELSE 2 * Pow2(k - 1)

Zero == <<0, 1>>
NaN == <<0, 0>>
Infinity == <<1, 0>>

IsFinite(x) == x[2] # 0

\* Significands lie in MinSig..MaxSig-1.
MinSig == Pow2(Precision - 1)
MaxSig == Pow2(Precision)

RECURSIVE Reduce(_, _)
Reduce(n, d) ==
    IF n = 0 THEN Zero
    ELSE IF n % 2 = 0 /\ d % 2 = 0 THEN Reduce(n \div 2, d \div 2)
    ELSE <<n, d>>

\* The integer nearest to n/d, ties to the even one.
RoundInt(n, d) ==
    LET q == n \div d
        r == n % d
    IN  IF 2 * r > d \/ (2 * r = d /\ q % 2 = 1) THEN q + 1 ELSE q

\* The number nearest to the rational n/d (n >= 0, d > 0) among those with a
\* significand of Precision bits, ties to even.
RECURSIVE RoundRat(_, _)
RoundRat(n, d) ==
    IF n = 0 THEN Zero
    ELSE IF n < d * MinSig
         THEN LET h == RoundRat(2 * n, d) IN Reduce(h[1], 2 * h[2])
    ELSE IF n >= d * MaxSig
         THEN LET h == RoundRat(n, 2 * d) IN Reduce(2 * h[1], h[2])
    ELSE Reduce(RoundInt(n, d), 1)

Num(i) == RoundRat(i, 1)
Hundred == Num(100)

\* a + b, a * b, a / b of the language: the exact result, rounded.
FAdd(a, b) == RoundRat(a[1] * b[2] + b[1] * a[2], a[2] * b[2])
FMul(a, b) == RoundRat(a[1] * b[1], a[2] * b[2])
FDiv(a, b) ==
    IF b[1] = 0 THEN (IF a[1] = 0 THEN NaN ELSE Infinity)
    ELSE RoundRat(a[1] * b[2], a[2] * b[1])

\* a <= b on finite numbers.
Leq(a, b) == a[1] * b[2] <= b[1] * a[2]

\* parseFloat of the decimal string for k/den.
parseFloat(k, den) == RoundRat(k, den)

(***************************************************************************)
(* gradeService.calculateAverage                                           *)
(***************************************************************************)
\* grades.reduce((sum, g) => sum + g.weight, 0)
RECURSIVE reduceWeight(_, _)
reduceWeight(gs, sum) ==
    IF gs = <<>> THEN sum
    ELSE reduceWeight(Tail(gs), FAdd(sum, Head(gs).weight))

\* grades.reduce((sum, g) => sum + (g.grade_value / g.max_value) * 100 * g.weight, 0)
RECURSIVE reduceWeighted(_, _)
reduceWeighted(gs, sum) ==
    IF gs = <<>> THEN sum
    ELSE LET g == Head(gs)
             percentage == FMul(FDiv(g.grade_value, g.max_value), Hundred)
         IN  reduceWeighted(Tail(gs), FAdd(sum, FMul(percentage, g.weight)))

\* A slip: the result divided by the number of grades, not by the weights.
calculateAverageByCount(gs) ==
    IF Len(gs) = 0 THEN Zero
    ELSE FDiv(reduceWeighted(gs, Zero), Num(Len(gs)))

\* A slip: the zero total weight is not caught before the division.
calculateAverageUnguarded(gs) ==
    IF Len(gs) = 0 THEN Zero
    ELSE FDiv(reduceWeighted(gs, Zero), reduceWeight(gs, Zero))

calculateAverage(gs) ==
    IF Len(gs) = 0 THEN Zero
    ELSE LET totalWeight == reduceWeight(gs, Zero)
         IN  IF totalWeight = Zero THEN Zero
             ELSE FDiv(reduceWeighted(gs, Zero), totalWeight)

(***************************************************************************)
(* attendanceService.calculateAttendanceRate                               *)
(***************************************************************************)
Statuses == {"present", "absent", "late", "excused"}

\* A slip: a late arrival counted as attended.
presentCountWithLate(as) ==
    Cardinality({i \in 1..Len(as) : as[i].status \in {"present", "late"}})

\* attendance.filter(a => a.status === 'present').length
presentCount(as) == Cardinality({i \in 1..Len(as) : as[i].status = "present"})

calculateAttendanceRate(as) ==
    IF Len(as) = 0 THEN Zero
    ELSE FMul(FDiv(Num(presentCount(as)), Num(Len(as))), Hundred)

(***************************************************************************)
(* Text.  A string is a sequence of one-character strings.                 *)
(***************************************************************************)
LowerCase == <<"a", "b", "c", "d", "e", "f", "g", "h", "i", "j", "k", "l", "m",
               "n", "o", "p", "q", "r", "s", "t", "u", "v", "w", "x", "y", "z">>
UpperCase == <<"A", "B", "C", "D", "E", "F", "G", "H", "I", "J", "K", "L", "M",
               "N", "O", "P", "Q", "R", "S", "T", "U", "V", "W", "X", "Y", "Z">>

\* String.prototype.toUpperCase
toUpperCase(str) ==
    [i \in 1..Len(str) |->
        IF \E k \in 1..Len(LowerCase) : LowerCase[k] = str[i]
        THEN UpperCase[CHOOSE k \in 1..Len(LowerCase) : LowerCase[k] = str[i]]
        ELSE str[i]]

\* String.prototype.trim
RECURSIVE trimStart(_)
trimStart(str) ==
    IF str # <<>> /\ Head(str) = " " THEN trimStart(Tail(str)) ELSE str
RECURSIVE trimEnd(_)
trimEnd(str) ==
    IF str # <<>> /\ str[Len(str)] = " " THEN trimEnd(SubSeq(str, 1, Len(str) - 1)) ELSE str
\* A slip: the blanks at the end are kept.
trimStartOnly(str) == trimStart(str)
trim(str) == trimEnd(trimStart(str))

\* String.prototype.charAt, index counted from 0: the empty string outside
\* the string.
charAt(str, index) ==
    IF index >= 0 /\ index < Len(str) THEN <<str[index + 1]>> ELSE <<>>

(***************************************************************************)
(* teacherClassService.generateClassCode                                   *)
(***************************************************************************)
\* A slip: the alphabet in lower case.
charsLowerCase == LowerCase \o <<"0", "1", "2", "3", "4", "5", "6", "7", "8", "9">>

\* const chars = 'ABCDEFGHIJKLMNOPQRSTUVWXYZ0123456789'
chars == UpperCase \o <<"0", "1", "2", "3", "4", "5", "6", "7", "8", "9">>

\* for (let i = 0; i < 6; i++)
CodeLength == 6

\* Math.floor of a finite non-negative number.
floor(x) == x[1] \div x[2]

\* A slip: Math.round, the index rounded to the nearest integer.
randomIndexRounded(r) ==
    LET x == FMul(r, Num(Len(chars))) IN (2 * x[1] + x[2]) \div (2 * x[2])

\* Math.floor(Math.random() * chars.length), r the result of Math.random()
randomIndex(r) == floor(FMul(r, Num(Len(chars))))

RECURSIVE codeLoop(_, _, _)
codeLoop(rs, i, code) ==
    IF i < CodeLength
    THEN codeLoop(rs, i + 1, code \o charAt(chars, randomIndex(rs[i + 1])))
    ELSE code

\* generateClassCode, rs the results of its calls of Math.random()
generateClassCode(rs) == codeLoop(rs, 0, <<>>)

\* Math.random() returns a number in [0, 1): the least one, the greatest one,
\* and the number in the middle of the k-th of the Len(chars) equal parts of
\* the range.
leastRandom == Zero
greatestRandom == Reduce(MaxSig - 1, MaxSig)
midRandom(k) == RoundRat(2 * k + 1, 2 * Len(chars))
RandomResults == {leastRandom, greatestRandom, midRandom(1), midRandom(18), midRandom(34)}

\* The draws that give the characters of chars at the given indices, and the
\* draws of the calls a teacher's handleCreateClass may see: those of ABC123,
\* of ZZZ999 and of AAAAAA.
drawsFor(indices) == [i \in 1..Len(indices) |-> midRandom(indices[i])]
DrawSequences ==
    { drawsFor(<<0, 1, 2, 27, 28, 29>>),
      drawsFor(<<25, 25, 25, 35, 35, 35>>),
      [i \in 1..CodeLength |-> leastRandom] }

(***************************************************************************)
(* The store.                                                              *)
(***************************************************************************)
\* The dashboards (browser tabs) a student has open.
Dashboards == {"tab1", "tab2"}
profile == [d \in Dashboards |-> [id |-> "alice", role |-> "student"]]

\* What the student may type into the code field: a class's code in lower
\* case, a code no class has, and blanks.
TypedCodes ==
    { <<"a", "b", "c", "1", "2", "3">>,
      <<"Z", "Z", "Z", "9", "9", "9">>,
      <<" ", " ">> }

\* The same codes typed in other letter case and with blanks around them;
\* the field takes at most six characters (maxLength).
TypedVariants ==
    TypedCodes \cup
    { <<"A", "B", "C", "1", "2", "3">>,
      <<"A", "b", "C", "1", "2", "3">>,
      <<" ", "z", "z", "9">>,
      <<"Z", "Z", "9", " ">>,
      <<"z", "Z", "9">> }

Teachers == {"tina", "tom"}

\* The classes teachers have created (teacherClassService.createClass stores
\* is_active: true).
CreatedClasses ==
    { [id |-> "c1", teacher_id |-> "tina", code |-> <<"A", "B", "C", "1", "2", "3">>,
       is_active |-> TRUE] }

\* .maybeSingle(): no row gives data null, one row gives the row, more rows
\* give an error.  data is the set of the rows returned: {} is null.
maybeSingle(rows) ==
    IF Cardinality(rows) > 1 THEN [data |-> {}, error |-> TRUE]
    ELSE [data |-> rows, error |-> FALSE]

\* A slip: the lookup without the is_active filter.
getClassByCodeAnyState(code) ==
    maybeSingle({c \in teacher_classes : c.code = code})

\* teacherClassService.getClassByCode
getClassByCode(code) ==
    maybeSingle({c \in teacher_classes : c.code = code /\ c.is_active = TRUE})

\* A slip: the code column without its uniqueness constraint.
classCodeNeverTaken(code) == FALSE

\* class_code text UNIQUE
classCodeTaken(code) == \E c \in teacher_classes : c.code = code

\* id uuid PRIMARY KEY DEFAULT gen_random_uuid(): an id no class has.
ClassIds == {"c1", "c2", "c3", "c4"}
freshClassId == CHOOSE i \in ClassIds : \A c \in teacher_classes : c.id # i

\* enrollmentService.isEnrolled
isEnrolled(studentId, classId) ==
    LET r == maybeSingle({e \in student_enrollments :
                            e.student_id = studentId /\ e.class_id = classId})
    IN  [value |-> r.data # {}, error |-> r.error]

\* A slip: August counted with the spring months.
semesterAfterAugust(currentMonth) == IF currentMonth > 7 THEN "Fall" ELSE "Spring"

\* currentMonth >= 7 ? 'Fall' : 'Spring'
semesterOf(currentMonth) == IF currentMonth >= 7 THEN "Fall" ELSE "Spring"

\* The row enrollInClass sends: the term is taken from the clock.
enrollmentRow(studentId, classId) ==
    [student_id |-> studentId, class_id |-> classId,
     academic_year |-> ToString(now.year), semester |-> semesterOf(now.month)]

\* A slip: the table without its uniqueness constraint.
noUniqueConstraint(row) == FALSE

\* UNIQUE(student_id, class_id, academic_year, semester)
uniqueViolation(row) ==
    \E e \in student_enrollments :
        /\ e.student_id = row.student_id
        /\ e.class_id = row.class_id
        /\ e.academic_year = row.academic_year
        /\ e.semester = row.semester

\* id uuid PRIMARY KEY DEFAULT gen_random_uuid(): an id no row has.
freshId ==
    CHOOSE i \in 1..(Cardinality(student_enrollments) + 1) :
        \A e \in student_enrollments : e.id # i

\* The outcome of the insert of enrollInClass: the table afterwards, and
\* whether the store answered with an error.
insertEnrollment(row) ==
    IF uniqueViolation(row)
    THEN [rows |-> student_enrollments, error |-> TRUE]
    ELSE [rows |-> student_enrollments \cup
                     {[id |-> freshId, student_id |-> row.student_id,
                       class_id |-> row.class_id,
                       academic_year |-> row.academic_year,
                       semester |-> row.semester]},
          error |-> FALSE]

(***************************************************************************)
(* The join dialog of the student dashboard.                               *)
(***************************************************************************)
NoError == ""
\* A slip: the invalid code reported with the text of the other failure.
conflatedMessage == "Ya estas inscrito en esta clase."
InvalidCode == "Codigo de clase invalido. Verifica el codigo e intenta nuevamente."
AlreadyEnrolled == "Ya estas inscrito en esta clase."
JoinFailed == "Error al unirse a la clase. Intenta nuevamente."

\* The code handleJoinClass looks up.
submittedCode(d) == toUpperCase(trim(classCode[d]))

\* The id of the class the lookup of dashboard d returned.
classId(d) == (CHOOSE c \in classData[d] : TRUE).id

\* onClick of "Unirse a una Clase"
OpenJoinModal(d) ==
    /\ pc[d] = "idle"
    /\ ~showJoinModal[d]
    /\ showJoinModal' = [showJoinModal EXCEPT ![d] = TRUE]
    /\ UNCHANGED <<pc, classCode, classData, joinError, now, dbVars, aggVars, genVars, rlsVars, otherVars>>

\* onClick of "Cancelar"
CancelJoinModal(d) ==
    /\ pc[d] = "idle"
    /\ showJoinModal[d]
    /\ showJoinModal' = [showJoinModal EXCEPT ![d] = FALSE]
    /\ classCode' = [classCode EXCEPT ![d] = <<>>]
    /\ joinError' = [joinError EXCEPT ![d] = NoError]
    /\ UNCHANGED <<pc, classData, now, dbVars, aggVars, genVars, rlsVars, otherVars>>

\* onChange of the code field.  The field is edited between two submissions.
TypeClassCode(d, text) ==
    /\ pc[d] = "idle"
    /\ showJoinModal[d]
    /\ classCode' = [classCode EXCEPT ![d] = toUpperCase(text)]
    /\ joinError' = [joinError EXCEPT ![d] = NoError]
    /\ UNCHANGED <<pc, showJoinModal, classData, now, dbVars, aggVars, genVars, rlsVars, otherVars>>

\* handleJoinClass up to its first await: the form is submitted.
SubmitJoin(d) ==
    /\ pc[d] = "idle"
    /\ showJoinModal[d]
    /\ joinError' = [joinError EXCEPT ![d] = NoError]
    /\ pc' = [pc EXCEPT ![d] = IF trim(classCode[d]) = <<>> THEN "idle" ELSE "lookup"]
    /\ UNCHANGED <<showJoinModal, classCode, classData, now, dbVars, aggVars, genVars, rlsVars, otherVars>>

\* handleJoinClass: the lookup by code answers.
LookupClass(d) ==
    /\ pc[d] = "lookup"
    /\ LET r == getClassByCode(submittedCode(d))
       IN  IF r.error
           THEN /\ joinError' = [joinError EXCEPT ![d] = JoinFailed]
                /\ pc' = [pc EXCEPT ![d] = "idle"]
                /\ UNCHANGED classData
           ELSE IF r.data = {}
           THEN /\ joinError' = [joinError EXCEPT ![d] = InvalidCode]
                /\ pc' = [pc EXCEPT ![d] = "idle"]
                /\ UNCHANGED classData
           ELSE /\ classData' = [classData EXCEPT ![d] = r.data]
                /\ pc' = [pc EXCEPT ![d] = "check"]
                /\ UNCHANGED joinError
    /\ UNCHANGED <<showJoinModal, classCode, now, dbVars, aggVars, genVars, rlsVars, otherVars>>

\* handleJoinClass: isEnrolled answers.
CheckEnrolled(d) ==
    /\ pc[d] = "check"
    /\ LET r == isEnrolled(profile[d].id, classId(d))
       IN  IF r.error
           THEN /\ joinError' = [joinError EXCEPT ![d] = JoinFailed]
                /\ pc' = [pc EXCEPT ![d] = "idle"]
                /\ classData' = [classData EXCEPT ![d] = {}]
           ELSE IF r.value
           THEN /\ joinError' = [joinError EXCEPT ![d] = AlreadyEnrolled]
                /\ pc' = [pc EXCEPT ![d] = "idle"]
                /\ classData' = [classData EXCEPT ![d] = {}]
           ELSE /\ pc' = [pc EXCEPT ![d] = "join"]
                /\ UNCHANGED <<joinError, classData>>
    /\ UNCHANGED <<showJoinModal, classCode, now, dbVars, aggVars, genVars, rlsVars, otherVars>>

\* handleJoinClass: the insert of the enrollment answers.
JoinClass(d) ==
    /\ pc[d] = "join"
    /\ LET r == insertEnrollment(enrollmentRow(profile[d].id, classId(d)))
       IN  /\ student_enrollments' = r.rows
           /\ IF r.error
              THEN /\ joinError' = [joinError EXCEPT ![d] = JoinFailed]
                   /\ UNCHANGED <<showJoinModal, classCode>>
              ELSE /\ showJoinModal' = [showJoinModal EXCEPT ![d] = FALSE]
                   /\ classCode' = [classCode EXCEPT ![d] = <<>>]
                   /\ UNCHANGED joinError
    /\ pc' = [pc EXCEPT ![d] = "idle"]
    /\ classData' = [classData EXCEPT ![d] = {}]
    /\ UNCHANGED <<now, teacher_classes, aggVars, genVars, rlsVars, otherVars>>

\* enrollmentService.delete: a student leaves a class.
LeaveClass(e) ==
    /\ e \in student_enrollments
    /\ student_enrollments' = {x \in student_enrollments : x.id # e.id}
    /\ UNCHANGED <<now, teacher_classes, uiVars, aggVars, genVars, rlsVars, otherVars>>

\* handleCreateClass of teacher t: a code is generated and the class is
\* inserted with it; a rejected insert ends in the alert and creates nothing.
CreateClass(t, rs) ==
    /\ Cardinality(teacher_classes) < MaxClasses
    /\ LET newCode == generateClassCode(rs)
       IN  /\ draws' = rs
           /\ generatedCode' = [returned |-> TRUE, code |-> newCode]
           /\ IF classCodeTaken(newCode)
              THEN /\ createAlert' = [createAlert EXCEPT ![t] = TRUE]
                   /\ UNCHANGED teacher_classes
              ELSE /\ teacher_classes' = teacher_classes \cup
                         {[id |-> freshClassId, teacher_id |-> t, code |-> newCode,
                           is_active |-> TRUE]}
                   /\ createAlert' = [createAlert EXCEPT ![t] = FALSE]
    /\ UNCHANGED <<now, student_enrollments, uiVars, aggVars, rlsVars, otherVars>>

\* teacherClassService.updateClass(id, {is_active}): the teacher closes or
\* reopens a class.
UpdateClassActive(c, active) ==
    /\ c \in teacher_classes
    /\ c.is_active # active
    /\ teacher_classes' =
          {IF x.id = c.id THEN [x EXCEPT !.is_active = active] ELSE x : x \in teacher_classes}
    /\ UNCHANGED <<now, student_enrollments, uiVars, aggVars, genVars, rlsVars, otherVars>>

\* A month passes.
Tick ==
    /\ ~(now.year = FirstYear + YearSpan /\ now.month = 11)
    /\ now' = IF now.month = 11 THEN [year |-> now.year + 1, month |-> 0]
              ELSE [now EXCEPT !.month = @ + 1]
    /\ UNCHANGED <<dbVars, uiVars, aggVars, genVars, rlsVars, otherVars>>

(***************************************************************************)
(* Row level security.  A policy names its table, the command it applies   *)
(* to, and its USING and WITH CHECK expressions; the migrations drop and   *)
(* create policies, and the policies in force are those the last migration *)
(* leaves.  The tables modelled are profiles, enrollments (named           *)
(* student_enrollments by the last migration), grades and attendance.      *)
(***************************************************************************)
Roles == {"admin", "teacher", "student"}

Policy(table, name, cmd, using, check) ==
    [table |-> table, name |-> name, cmd |-> cmd, using |-> using, check |-> check]

\* The expressions of the policies.  Absent is a clause the policy omits.
Absent == "absent"
AlwaysTrue == "true"
IdIsUid == "id = auth.uid()"
UidIsAdmin == "EXISTS profiles WHERE id = auth.uid() AND role = 'admin'"
StudentTaughtByUid ==
    "role = 'student' AND EXISTS teacher_subjects ts JOIN enrollments e WHERE ts.teacher_id = auth.uid() AND e.student_id = profiles.id"
OwnStudentProfile == "id = auth.uid() AND role = 'student'"
StudentIdIsUid == "student_id = auth.uid()"
UidTeachesSubject ==
    "EXISTS teacher_subjects WHERE teacher_id = auth.uid() AND subject_id = enrollments.subject_id"
EnrollmentOfUid == "EXISTS enrollments WHERE id = enrollment_id AND student_id = auth.uid()"
EnrollmentTaughtByUid ==
    "EXISTS enrollments e JOIN teacher_subjects ts WHERE e.id = enrollment_id AND ts.teacher_id = auth.uid()"
StudentEnrollsInActiveSubject ==
    "student_id = auth.uid() AND EXISTS profiles role = 'student' AND EXISTS subjects is_active = true"
SubjectOwnedByUid == "EXISTS subjects WHERE id = subject_id AND teacher_id = auth.uid()"
ClassOwnedByUid == "EXISTS teacher_classes WHERE id = class_id AND teacher_id = auth.uid()"
StudentUidEnrolls == "auth.uid() = student_id AND EXISTS profiles role = 'student'"
TeacherIdIsUid == "teacher_id = auth.uid()"
ActiveAndEnrolled ==
    "is_active = true AND EXISTS enrollments WHERE subject_id = subjects.id AND student_id = auth.uid()"
IsActive == "is_active = true"
OwnClassAsTeacher == "teacher_id = auth.uid() AND role of auth.uid() = 'teacher'"
ViewSubjects ==
    "role = 'admin' OR teacher_id = auth.uid() OR (is_active AND role = 'student' AND enrolled) OR is_active = true"
AdminOrOwner == "role of auth.uid() = 'admin' OR teacher_id = auth.uid()"
RoleIsAdmin == "(SELECT role FROM profiles WHERE id = auth.uid()) = 'admin'"
RoleIsTeacher == "(SELECT role FROM profiles WHERE id = auth.uid()) = 'teacher'"
StudentSeesActive == "(SELECT role FROM profiles WHERE id = auth.uid()) = 'student' AND is_active = true"
RoleIsTeacherOrAdmin == "(SELECT role FROM profiles WHERE id = auth.uid()) IN ('teacher', 'admin')"
TeacherOwns == "(SELECT role FROM profiles WHERE id = auth.uid()) = 'teacher' AND teacher_id = auth.uid()"
GeneratedByUid == "generated_by = auth.uid()"
UidTeachesReportSubject ==
    "EXISTS teacher_subjects WHERE teacher_id = auth.uid() AND subject_id = reports.subject_id"

\* The policies the initial schema and the first migration both create.
ProfilesRolePolicies ==
    { Policy("profiles", "Admins can view all profiles", "SELECT", UidIsAdmin, Absent),
      Policy("profiles", "Users can view own profile", "SELECT", IdIsUid, Absent),
      Policy("profiles", "Teachers can view student profiles in their subjects", "SELECT",
             StudentTaughtByUid, Absent),
      Policy("profiles", "Users can update own profile", "UPDATE", IdIsUid, IdIsUid),
      Policy("profiles", "Admins can update all profiles", "UPDATE", UidIsAdmin, UidIsAdmin),
      Policy("profiles", "Admins can delete profiles", "DELETE", UidIsAdmin, Absent) }

EnrollmentsRolePolicies ==
    { Policy("enrollments", "Students can view own enrollments", "SELECT", StudentIdIsUid, Absent),
      Policy("enrollments", "Teachers can view enrollments in their subjects", "SELECT",
             UidTeachesSubject, Absent),
      Policy("enrollments", "Admins can view all enrollments", "SELECT", UidIsAdmin, Absent),
      Policy("enrollments", "Admins can manage enrollments", "ALL", UidIsAdmin, UidIsAdmin) }

GradesRolePolicies ==
    { Policy("grades", "Students can view own grades", "SELECT", EnrollmentOfUid, Absent),
      Policy("grades", "Teachers can view grades for their subjects", "SELECT",
             EnrollmentTaughtByUid, Absent),
      Policy("grades", "Teachers can insert grades for their subjects", "INSERT",
             Absent, EnrollmentTaughtByUid),
      Policy("grades", "Teachers can update grades for their subjects", "UPDATE",
             EnrollmentTaughtByUid, EnrollmentTaughtByUid),
      Policy("grades", "Admins can manage all grades", "ALL", UidIsAdmin, UidIsAdmin) }

AttendanceRolePolicies ==
    { Policy("attendance", "Students can view own attendance", "SELECT", EnrollmentOfUid, Absent),
      Policy("attendance", "Teachers can view attendance for their subjects", "SELECT",
             EnrollmentTaughtByUid, Absent),
      Policy("attendance", "Teachers can manage attendance for their subjects", "ALL",
             EnrollmentTaughtByUid, EnrollmentTaughtByUid),
      Policy("attendance", "Admins can manage all attendance", "ALL", UidIsAdmin, UidIsAdmin) }

SubjectsRolePolicies ==
    { Policy("subjects", "Anyone authenticated can view subjects", "SELECT", AlwaysTrue, Absent),
      Policy("subjects", "Admins can manage subjects", "ALL", UidIsAdmin, UidIsAdmin) }

TeacherSubjectsRolePolicies ==
    { Policy("teacher_subjects", "Teachers can view their assignments", "SELECT",
             TeacherIdIsUid, Absent),
      Policy("teacher_subjects", "Admins can view all teacher assignments", "SELECT",
             UidIsAdmin, Absent),
      Policy("teacher_subjects", "Admins can manage teacher assignments", "ALL",
             UidIsAdmin, UidIsAdmin) }

ReportsRolePolicies ==
    { Policy("reports", "Users can view own generated reports", "SELECT", GeneratedByUid, Absent),
      Policy("reports", "Students can view reports about themselves", "SELECT",
             StudentIdIsUid, Absent),
      Policy("reports", "Teachers can view reports for their subjects", "SELECT",
             UidTeachesReportSubject, Absent),
      Policy("reports", "Admins can view all reports", "SELECT", UidIsAdmin, Absent),
      Policy("reports", "Authenticated users can create reports", "INSERT",
             Absent, GeneratedByUid),
      Policy("reports", "Admins can delete reports", "DELETE", UidIsAdmin, Absent) }

RolePolicies ==
    ProfilesRolePolicies \cup SubjectsRolePolicies \cup TeacherSubjectsRolePolicies
        \cup EnrollmentsRolePolicies \cup GradesRolePolicies \cup AttendanceRolePolicies
        \cup ReportsRolePolicies

\* "Allow authenticated read / insert / update / delete <table>", all with true.
AllowAuthenticated(table) ==
    { Policy(table, "Allow authenticated read " \o table, "SELECT", AlwaysTrue, Absent),
      Policy(table, "Allow authenticated insert " \o table, "INSERT", Absent, AlwaysTrue),
      Policy(table, "Allow authenticated update " \o table, "UPDATE", AlwaysTrue, AlwaysTrue),
      Policy(table, "Allow authenticated delete " \o table, "DELETE", AlwaysTrue, Absent) }

NamesOf(ps) == {<<p.table, p.name>> : p \in ps}

\* The initial schema.
InitialSchema ==
    [drop |-> {},
     create |-> RolePolicies \cup
        { Policy("profiles", "Admins can insert profiles", "INSERT", Absent, UidIsAdmin) }]

\* Migration 20251101202219, first part: every policy is dropped if it exists
\* and created again; students may create their own profile.
FixProfilesInsertPolicy ==
    LET created == RolePolicies \cup
            { Policy("profiles", "Users can create own student profile", "INSERT",
                     Absent, OwnStudentProfile),
              Policy("profiles", "Admins can create any profile", "INSERT", Absent, UidIsAdmin) }
    IN  [drop |-> NamesOf(created) \cup {<<"profiles", "Admins can insert profiles">>},
         create |-> created]

\* Migration 20251101202219, second part: the policies that look into
\* profiles are dropped and replaced.
FixRlsInfiniteRecursion ==
    [drop |-> NamesOf(FixProfilesInsertPolicy.create)
                 \cup {<<"profiles", "Users can insert own profile">>},
     create |->
        { Policy("profiles", "Allow authenticated read all profiles", "SELECT", AlwaysTrue, Absent),
          Policy("profiles", "Allow authenticated insert own profile", "INSERT", Absent, IdIsUid),
          Policy("profiles", "Allow authenticated update own profile", "UPDATE", IdIsUid, IdIsUid),
          Policy("profiles", "Allow authenticated delete profiles", "DELETE", AlwaysTrue, Absent) }
        \cup AllowAuthenticated("subjects")
        \cup AllowAuthenticated("teacher_subjects")
        \cup AllowAuthenticated("reports")
        \cup AllowAuthenticated("enrollments")
        \cup AllowAuthenticated("grades")
        \cup AllowAuthenticated("attendance")]

\* Migration 20251101210157: students join classes.
TeacherOwnershipPolicies ==
    { Policy("subjects", "Teachers can view own classes", "SELECT", TeacherIdIsUid, Absent),
      Policy("subjects", "Students can view enrolled classes", "SELECT", ActiveAndEnrolled, Absent),
      Policy("subjects", "Anyone can view active classes", "SELECT", IsActive, Absent),
      Policy("subjects", "Teachers can create classes", "INSERT", Absent, OwnClassAsTeacher),
      Policy("subjects", "Teachers can update own classes", "UPDATE",
             TeacherIdIsUid, TeacherIdIsUid),
      Policy("subjects", "Teachers can delete own classes", "DELETE", TeacherIdIsUid, Absent),
      Policy("subjects", "Admins can manage all subjects", "ALL", UidIsAdmin, UidIsAdmin) }

AddClassCodesAndTeacherOwnership ==
    [drop |-> NamesOf(SubjectsRolePolicies)
                 \cup {<<"enrollments", "Admins can manage enrollments">>},
     create |-> TeacherOwnershipPolicies \cup
        { Policy("enrollments", "Students can enroll in classes", "INSERT",
                 Absent, StudentEnrollsInActiveSubject),
          Policy("enrollments", "Students can leave classes", "DELETE", StudentIdIsUid, Absent),
          Policy("enrollments", "Teachers can manage enrollments in their classes", "ALL",
                 SubjectOwnedByUid, SubjectOwnedByUid),
          Policy("enrollments", "Admins can manage all enrollments", "ALL",
                 UidIsAdmin, UidIsAdmin),
          Policy("teacher_subjects", "Teachers can create subject assignments", "INSERT",
                 Absent, OwnClassAsTeacher) }]

\* Migration 20251101212027: the policies of subjects are dropped and
\* replaced.
FixSubjectsRlsPolicies ==
    [drop |-> NamesOf(TeacherOwnershipPolicies),
     create |->
        { Policy("subjects", "Allow authenticated users to view subjects", "SELECT",
                 ViewSubjects, Absent),
          Policy("subjects", "Teachers can create classes", "INSERT", Absent, OwnClassAsTeacher),
          Policy("subjects", "Teachers and admins can update classes", "UPDATE",
                 AdminOrOwner, AdminOrOwner),
          Policy("subjects", "Teachers and admins can delete classes", "DELETE",
                 AdminOrOwner, Absent) }]

\* Migration 20251102022358: the policies of subjects it names are dropped
\* and new ones created.
FixTeachersCreateClasses ==
    { Policy("subjects", "Admins can view all subjects", "SELECT", RoleIsAdmin, Absent),
      Policy("subjects", "Teachers can view all subjects", "SELECT", RoleIsTeacher, Absent),
      Policy("subjects", "Students can view active subjects", "SELECT",
             StudentSeesActive, Absent),
      Policy("subjects", "Teachers and admins can create subjects", "INSERT",
             Absent, RoleIsTeacherOrAdmin),
      Policy("subjects", "Teachers can update own subjects", "UPDATE", TeacherOwns, TeacherOwns),
      Policy("subjects", "Admins can update all subjects", "UPDATE", RoleIsAdmin, RoleIsAdmin),
      Policy("subjects", "Teachers can delete own subjects", "DELETE", TeacherOwns, Absent),
      Policy("subjects", "Admins can delete all subjects", "DELETE", RoleIsAdmin, Absent) }

\* Migration 20251102022358: table student_enrollments and its policies.
StudentEnrollmentsPolicies ==
    { Policy("student_enrollments", "Students can view their own enrollments", "SELECT",
             StudentIdIsUid, Absent),
      Policy("student_enrollments", "Teachers can view their class enrollments", "SELECT",
             ClassOwnedByUid, Absent),
      Policy("student_enrollments", "Admins can view all enrollments", "SELECT",
             UidIsAdmin, Absent),
      Policy("student_enrollments", "Students can enroll in classes", "INSERT",
             Absent, StudentUidEnrolls),
      Policy("student_enrollments", "Students can delete their own enrollments", "DELETE",
             StudentIdIsUid, Absent),
      Policy("student_enrollments", "Teachers can delete enrollments from their classes",
             "DELETE", ClassOwnedByUid, Absent) }

CreateStudentEnrollments ==
    [drop |-> { <<"subjects", "Admins can view all subjects">>,
                <<"subjects", "Allow authenticated delete subjects">>,
                <<"subjects", "Allow authenticated insert subjects">>,
                <<"subjects", "Allow authenticated read subjects">>,
                <<"subjects", "Allow authenticated update subjects">>,
                <<"subjects", "Authenticated users can view active subjects">>,
                <<"subjects", "Teachers and admins can create subjects">>,
                <<"subjects", "Teachers and admins can delete subjects">>,
                <<"subjects", "Teachers and admins can update subjects">>,
                <<"student_enrollments", "Students can view their own enrollments">>,
                <<"student_enrollments", "Teachers can view their class enrollments">>,
                <<"student_enrollments", "Students can enroll in classes">>,
                <<"student_enrollments", "Students can delete their own enrollments">>,
                <<"student_enrollments", "Admins can view all enrollments">> },
     create |-> FixTeachersCreateClasses \cup StudentEnrollmentsPolicies]

\* The migrations in the order they are applied.
Migrations ==
    << InitialSchema, FixProfilesInsertPolicy, FixRlsInfiniteRecursion,
       AddClassCodesAndTeacherOwnership, FixSubjectsRlsPolicies,
       CreateStudentEnrollments >>

\* DROP POLICY IF EXISTS ...; CREATE POLICY ...
applyMigration(ps, mig) ==
    {p \in ps : <<p.table, p.name>> \notin mig.drop} \cup mig.create

RECURSIVE applyMigrations(_, _)
applyMigrations(ps, k) ==
    IF k > Len(Migrations) THEN ps
    ELSE applyMigrations(applyMigration(ps, Migrations[k]), k + 1)

\* The policies the migrations leave in force.
PoliciesInForce == applyMigrations({}, 1)

\* The identities that hold a session.  nora has signed up and has no
\* profile row yet.
Identities == {"alice", "bob", "tina", "tom", "root", "nora"}

\* The rows of the database when the statements below begin: two students,
\* two teachers with a class each, an administrator, one enrollment per
\* student, an attendance record per enrollment, and the first grade.
InitialProfiles ==
    { [id |-> "alice", role |-> "student"], [id |-> "bob", role |-> "student"],
      [id |-> "tina", role |-> "teacher"], [id |-> "tom", role |-> "teacher"],
      [id |-> "root", role |-> "admin"] }
InitialClasses ==
    CreatedClasses \cup
    { [id |-> "c2", teacher_id |-> "tom", code |-> <<"Z", "Z", "Z", "9", "9", "9">>,
       is_active |-> TRUE] }
InitialEnrollments ==
    { [id |-> 1, student_id |-> "alice", class_id |-> "c1",
       academic_year |-> ToString(FirstYear), semester |-> "Spring"],
      [id |-> 2, student_id |-> "bob", class_id |-> "c2",
       academic_year |-> ToString(FirstYear), semester |-> "Spring"] }
InitialGrades ==
    { [id |-> 1, enrollment_id |-> 2, teacher_id |-> "tom", grade_value |-> Zero,
       max_value |-> Hundred, weight |-> Num(1)] }
\* The days attendance is taken on.
Dates == {"2025-03-03", "2025-03-04"}
InitialAttendance ==
    { [id |-> 1, enrollment_id |-> 1, teacher_id |-> "tina", date |-> "2025-03-03",
       status |-> "present"],
      [id |-> 2, enrollment_id |-> 2, teacher_id |-> "tom", date |-> "2025-03-03",
       status |-> "present"] }

\* The rows of table teacher_subjects (teacherSubjectService.assignTeacher).
teacher_subjects ==
    { [teacher_id |-> "tina", subject_id |-> "c1"],
      [teacher_id |-> "tom", subject_id |-> "c2"] }

\* The role the profile of uid holds; "none" without a profile.
roleOf(uid) ==
    IF \E p \in profiles : p.id = uid
    THEN (CHOOSE p \in profiles : p.id = uid).role
    ELSE "none"

\* The value of a policy expression for the identity uid and a row.  The
\* enrollment tables name the class subject_id or class_id.
Holds(expr, uid, row) ==
    CASE expr = AlwaysTrue -> TRUE
      [] expr = Absent -> FALSE
      [] expr = IdIsUid -> row.id = uid
      [] expr = UidIsAdmin -> \E p \in profiles : p.id = uid /\ p.role = "admin"
      [] expr = StudentTaughtByUid ->
            /\ row.role = "student"
            /\ \E ts \in teacher_subjects : \E e \in student_enrollments :
                  /\ e.class_id = ts.subject_id
                  /\ ts.teacher_id = uid
                  /\ e.student_id = row.id
      [] expr = OwnStudentProfile -> row.id = uid /\ row.role = "student"
      [] expr = StudentIdIsUid -> row.student_id = uid
      [] expr = UidTeachesSubject ->
            \E ts \in teacher_subjects :
                ts.teacher_id = uid /\ ts.subject_id = row.class_id
      [] expr = EnrollmentOfUid ->
            \E e \in student_enrollments :
                e.id = row.enrollment_id /\ e.student_id = uid
      [] expr = EnrollmentTaughtByUid ->
            \E e \in student_enrollments : \E ts \in teacher_subjects :
                /\ ts.subject_id = e.class_id
                /\ e.id = row.enrollment_id
                /\ ts.teacher_id = uid
      [] expr = StudentEnrollsInActiveSubject ->
            /\ row.student_id = uid
            /\ \E p \in profiles : p.id = uid /\ p.role = "student"
            /\ \E c \in teacher_classes : c.id = row.class_id /\ c.is_active = TRUE
      [] expr = SubjectOwnedByUid ->
            \E c \in teacher_classes : c.id = row.class_id /\ c.teacher_id = uid
      [] expr = ClassOwnedByUid ->
            \E c \in teacher_classes : c.id = row.class_id /\ c.teacher_id = uid
      [] expr = StudentUidEnrolls ->
            /\ uid = row.student_id
            /\ \E p \in profiles : p.id = uid /\ p.role = "student"
      [] expr = TeacherIdIsUid -> row.teacher_id = uid
      [] expr = ActiveAndEnrolled ->
            /\ row.is_active = TRUE
            /\ \E e \in student_enrollments : e.class_id = row.id /\ e.student_id = uid
      [] expr = IsActive -> row.is_active = TRUE
      [] expr = OwnClassAsTeacher -> row.teacher_id = uid /\ roleOf(uid) = "teacher"
      [] expr = ViewSubjects ->
            \/ roleOf(uid) = "admin"
            \/ row.teacher_id = uid
            \/ /\ row.is_active = TRUE
               /\ roleOf(uid) = "student"
               /\ \E e \in student_enrollments : e.class_id = row.id /\ e.student_id = uid
            \/ row.is_active = TRUE
      [] expr = AdminOrOwner -> roleOf(uid) = "admin" \/ row.teacher_id = uid
      [] expr = RoleIsAdmin -> roleOf(uid) = "admin"
      [] expr = RoleIsTeacher -> roleOf(uid) = "teacher"
      [] expr = StudentSeesActive -> roleOf(uid) = "student" /\ row.is_active = TRUE
      [] expr = RoleIsTeacherOrAdmin -> roleOf(uid) \in {"teacher", "admin"}
      [] expr = TeacherOwns -> roleOf(uid) = "teacher" /\ row.teacher_id = uid
      [] expr = GeneratedByUid -> row.generated_by = uid
      [] expr = UidTeachesReportSubject ->
            \E ts \in teacher_subjects :
                ts.teacher_id = uid /\ ts.subject_id = row.subject_id

\* The policies of a table that apply to a command; those of one command are
\* combined with OR.  A policy without WITH CHECK checks its USING expression.
Applicable(table, cmd) ==
    {p \in PoliciesInForce : p.table = table /\ p.cmd \in {cmd, "ALL"}}
checkOf(p) == IF p.check = Absent THEN p.using ELSE p.check
PassesUsing(uid, table, cmd, row) ==
    \E p \in Applicable(table, cmd) : Holds(p.using, uid, row)
PassesCheck(uid, table, cmd, row) ==
    \E p \in Applicable(table, cmd) : Holds(checkOf(p), uid, row)

\* What row level security lets the identity uid do.  An UPDATE or DELETE
\* with a WHERE clause also reads the row.
MaySelect(uid, table, row) == PassesUsing(uid, table, "SELECT", row)
MayInsert(uid, table, row) == PassesCheck(uid, table, "INSERT", row)
MayUpdate(uid, table, old, new) ==
    /\ MaySelect(uid, table, old)
    /\ PassesUsing(uid, table, "UPDATE", old)
    /\ PassesCheck(uid, table, "UPDATE", new)
MayDelete(uid, table, row) ==
    MaySelect(uid, table, row) /\ PassesUsing(uid, table, "DELETE", row)

\* The tables a policy expression queries.
Reads(expr) ==
    CASE expr \in {UidIsAdmin, StudentUidEnrolls, OwnClassAsTeacher, AdminOrOwner, RoleIsAdmin,
                   RoleIsTeacher, StudentSeesActive, RoleIsTeacherOrAdmin, TeacherOwns} ->
            {"profiles"}
      [] expr \in {StudentTaughtByUid, EnrollmentTaughtByUid} -> {"teacher_subjects", "enrollments"}
      [] expr \in {UidTeachesSubject, UidTeachesReportSubject} -> {"teacher_subjects"}
      [] expr \in {EnrollmentOfUid, ActiveAndEnrolled} -> {"enrollments"}
      [] expr = StudentEnrollsInActiveSubject -> {"profiles", "subjects"}
      [] expr = SubjectOwnedByUid -> {"subjects"}
      [] expr = ClassOwnedByUid -> {"teacher_classes"}
      [] expr = ViewSubjects -> {"profiles", "enrollments"}
      [] OTHER -> {}

\* The tables under row level security.
Tables ==
    {"profiles", "subjects", "teacher_subjects", "enrollments", "grades", "attendance",
     "reports", "student_enrollments"}
Commands == {"SELECT", "INSERT", "UPDATE", "DELETE"}

\* The expressions a command makes the database evaluate on a table: USING of
\* the policies for SELECT, UPDATE and DELETE (the last two read the row as
\* well), WITH CHECK of those for INSERT and UPDATE.
expressionsFor(table, cmd) ==
    LET using == {p.using : p \in Applicable(table, cmd)}
        check == {checkOf(p) : p \in Applicable(table, cmd)}
        select == {p.using : p \in Applicable(table, "SELECT")}
    IN  (CASE cmd = "SELECT" -> using
           [] cmd = "INSERT" -> check
           [] cmd = "UPDATE" -> using \cup check \cup select
           [] cmd = "DELETE" -> using \cup select) \ {Absent}

\* The tables the policies of a table query when a command is evaluated.
subqueries(table, cmd) == UNION {Reads(expr) : expr \in expressionsFor(table, cmd)}

\* A table occurs twice among the tables being evaluated.
reentered == \E i, j \in 1..Len(evalStack) : i < j /\ evalStack[i].table = evalStack[j].table

\* A statement arrives: the policies of its table for its command are
\* evaluated, and the tables they query are still to be read.
BeginEvaluation(table, cmd) ==
    /\ evalStack = <<>>
    /\ evalStack' = <<[table |-> table, cmd |-> cmd, pending |-> subqueries(table, cmd)]>>
    /\ UNCHANGED <<now, dbVars, uiVars, aggVars, genVars, rlsVars, tdVars, adVars>>

\* The policies being evaluated query a table: the SELECT policies of that
\* table are evaluated in turn.  The database gives up with "infinite
\* recursion detected in policy" once a table is entered again.
EvaluateSubquery(table) ==
    /\ evalStack # <<>>
    /\ ~reentered
    /\ table \in evalStack[Len(evalStack)].pending
    /\ evalStack' =
          Append([evalStack EXCEPT ![Len(evalStack)].pending = @ \ {table}],
                 [table |-> table, cmd |-> "SELECT", pending |-> subqueries(table, "SELECT")])
    /\ UNCHANGED <<now, dbVars, uiVars, aggVars, genVars, rlsVars, tdVars, adVars>>

\* The innermost table's policies have read every table they query.
FinishEvaluation ==
    /\ evalStack # <<>>
    /\ ~reentered
    /\ evalStack[Len(evalStack)].pending = {}
    /\ evalStack' = SubSeq(evalStack, 1, Len(evalStack) - 1)
    /\ UNCHANGED <<now, dbVars, uiVars, aggVars, genVars, rlsVars, tdVars, adVars>>

\* The statement an identity sent, the role its profile held then, and
\* whether row level security let the statement act on the row.
Request(uid, cmd, table, row, allowed) ==
    [actor |-> uid, role |-> roleOf(uid), cmd |-> cmd, table |-> table,
     row |-> row, allowed |-> allowed]
NoRequest ==
    [actor |-> "", role |-> "none", cmd |-> "", table |-> "", row |-> [id |-> 0],
     allowed |-> FALSE]

freshGradeId ==
    CHOOSE i \in 1..(Cardinality(gradesTable) + 1) : \A g \in gradesTable : g.id # i

\* gradeService.getEnrollmentGrades: SELECT of a grade.
SelectGrade(uid, g) ==
    /\ g \in gradesTable
    /\ request' = Request(uid, "SELECT", "grades", g, MaySelect(uid, "grades", g))
    /\ UNCHANGED <<profiles, gradesTable, attendanceTable, now, dbVars, uiVars, aggVars, genVars, otherVars>>

\* gradeService.create: INSERT of a grade for an enrollment.
InsertGrade(uid, e) ==
    /\ Cardinality(gradesTable) < MaxGradeRows
    /\ e \in student_enrollments
    /\ \E p \in profiles : p.id = uid
    /\ LET row == [id |-> freshGradeId, enrollment_id |-> e.id, teacher_id |-> uid,
                   grade_value |-> Zero, max_value |-> Hundred, weight |-> Num(1)]
           allowed == MayInsert(uid, "grades", row)
       IN  /\ request' = Request(uid, "INSERT", "grades", row, allowed)
           /\ gradesTable' = IF allowed THEN gradesTable \cup {row} ELSE gradesTable
    /\ UNCHANGED <<profiles, attendanceTable, now, dbVars, uiVars, aggVars, genVars, otherVars>>

\* gradeService.update: UPDATE of the value of a grade.
UpdateGrade(uid, g, value) ==
    /\ g \in gradesTable
    /\ g.grade_value # value
    /\ LET new == [g EXCEPT !.grade_value = value]
           allowed == MayUpdate(uid, "grades", g, new)
       IN  /\ request' = Request(uid, "UPDATE", "grades", g, allowed)
           /\ gradesTable' = IF allowed THEN (gradesTable \ {g}) \cup {new} ELSE gradesTable
    /\ UNCHANGED <<profiles, attendanceTable, now, dbVars, uiVars, aggVars, genVars, otherVars>>

\* gradeService.delete: DELETE of a grade.
DeleteGrade(uid, g) ==
    /\ g \in gradesTable
    /\ LET allowed == MayDelete(uid, "grades", g)
       IN  /\ request' = Request(uid, "DELETE", "grades", g, allowed)
           /\ gradesTable' = IF allowed THEN gradesTable \ {g} ELSE gradesTable
    /\ UNCHANGED <<profiles, attendanceTable, now, dbVars, uiVars, aggVars, genVars, otherVars>>

\* attendanceService.getEnrollmentAttendance: SELECT of an attendance record.
SelectAttendance(uid, a) ==
    /\ a \in attendanceTable
    /\ request' = Request(uid, "SELECT", "attendance", a, MaySelect(uid, "attendance", a))
    /\ UNCHANGED <<profiles, gradesTable, attendanceTable, now, dbVars, uiVars, aggVars, genVars, otherVars>>

\* INSERT of an enrollment of a student in a class, into the table of either
\* name; the uniqueness constraint applies to the row the policies let in.
InsertEnrollment(uid, table, studentId, c) ==
    /\ c \in teacher_classes
    /\ \E p \in profiles : p.id = studentId
    /\ LET row == enrollmentRow(studentId, c.id)
           allowed == MayInsert(uid, table, row)
       IN  /\ request' = Request(uid, "INSERT", table, row, allowed)
           /\ student_enrollments' =
                 IF allowed THEN insertEnrollment(row).rows ELSE student_enrollments
    /\ UNCHANGED <<profiles, gradesTable, attendanceTable, now, teacher_classes,
                   uiVars, aggVars, genVars, otherVars>>

\* The profile insert of the sign-up: INSERT of a profile row.  id is the
\* primary key.
InsertProfile(uid, id, role) ==
    /\ LET row == [id |-> id, role |-> role]
           allowed == MayInsert(uid, "profiles", row)
       IN  /\ request' = Request(uid, "INSERT", "profiles", row, allowed)
           /\ profiles' = IF allowed /\ ~\E p \in profiles : p.id = id
                          THEN profiles \cup {row} ELSE profiles
    /\ UNCHANGED <<gradesTable, attendanceTable, now, dbVars, uiVars, aggVars, genVars, otherVars>>

\* profileService.delete: DELETE of a profile.  The rows that reference it ON
\* DELETE CASCADE go with it (the classes of a teacher, the enrollments of a
\* student or of such a class, their grades and attendance); a grade or an
\* attendance record whose teacher_id references it (NOT NULL, ON DELETE SET
\* NULL) makes the statement fail.
DeleteProfile(uid, target) ==
    /\ target \in profiles
    /\ LET allowed == MayDelete(uid, "profiles", target)
           blocked == \E r \in gradesTable \cup attendanceTable : r.teacher_id = target.id
           keptClasses == {c \in teacher_classes : c.teacher_id # target.id}
           enrollments == {e \in student_enrollments :
                              /\ e.student_id # target.id
                              /\ \E c \in keptClasses : c.id = e.class_id}
       IN  /\ request' = Request(uid, "DELETE", "profiles", target, allowed)
           /\ IF allowed /\ ~blocked
              THEN /\ profiles' = profiles \ {target}
                   /\ teacher_classes' = keptClasses
                   /\ student_enrollments' = enrollments
                   /\ gradesTable' =
                         {g \in gradesTable : \E e \in enrollments : e.id = g.enrollment_id}
                   /\ attendanceTable' =
                         {a \in attendanceTable : \E e \in enrollments : e.id = a.enrollment_id}
              ELSE UNCHANGED <<profiles, teacher_classes, student_enrollments,
                               gradesTable, attendanceTable>>
    /\ UNCHANGED <<now, uiVars, aggVars, genVars, otherVars>>

\* SQL NULL, and what JSON.stringify makes of a number in the body of a
\* request: NaN and the infinities become null.
Null == <<>>
toJson(x) == IF IsFinite(x) THEN x ELSE Null

\* The constraints of the columns of table grades.  A CHECK passes when its
\* expression is true or NULL.
gradeValueCheck(v) == v = Null \/ Leq(Zero, v)
maxValueCheck(v) == v = Null \/ ~Leq(v, Zero)
weightCheck(w) == w = Null \/ (Leq(Zero, w) /\ Leq(w, Num(1)))
gradeRowAccepted(row) ==
    /\ row.grade_value # Null /\ gradeValueCheck(row.grade_value)
    /\ row.max_value # Null /\ maxValueCheck(row.max_value)
    /\ weightCheck(row.weight)

\* handleAddGrade, gradeService.create: INSERT of a grade with the numbers
\* parseFloat made of the fields of the form.
CreateGrade(uid, e, gradeValue, maxValue, weight) ==
    /\ Cardinality(gradesTable) < MaxGradeRows
    /\ e \in student_enrollments
    /\ \E p \in profiles : p.id = uid
    /\ LET row == [id |-> freshGradeId, enrollment_id |-> e.id, teacher_id |-> uid,
                   grade_value |-> toJson(gradeValue), max_value |-> toJson(maxValue),
                   weight |-> toJson(weight)]
           allowed == MayInsert(uid, "grades", row)
       IN  /\ request' = Request(uid, "INSERT", "grades", row, allowed)
           /\ gradesTable' = IF allowed /\ gradeRowAccepted(row)
                             THEN gradesTable \cup {row} ELSE gradesTable
    /\ UNCHANGED <<profiles, attendanceTable, now, dbVars, uiVars, aggVars, genVars, otherVars>>

\* gradeService.update: UPDATE of the three numbers of a grade.
UpdateGradeNumbers(uid, g, gradeValue, maxValue, weight) ==
    /\ g \in gradesTable
    /\ LET new == [g EXCEPT !.grade_value = toJson(gradeValue),
                            !.max_value = toJson(maxValue), !.weight = toJson(weight)]
           allowed == MayUpdate(uid, "grades", g, new)
       IN  /\ new # g
           /\ request' = Request(uid, "UPDATE", "grades", new, allowed)
           /\ gradesTable' = IF allowed /\ gradeRowAccepted(new)
                             THEN (gradesTable \ {g}) \cup {new} ELSE gradesTable
    /\ UNCHANGED <<profiles, attendanceTable, now, dbVars, uiVars, aggVars, genVars, otherVars>>

\* A slip: table attendance without its uniqueness constraint.
noAttendanceConstraint(rows, row) == FALSE

\* UNIQUE(enrollment_id, date): another row holds the enrollment and date of row.
attendanceTaken(rows, row) ==
    \E a \in rows :
        a.id # row.id /\ a.enrollment_id = row.enrollment_id /\ a.date = row.date

freshAttendanceId ==
    CHOOSE i \in 1..(Cardinality(attendanceTable) + 1) : \A a \in attendanceTable : a.id # i

\* attendanceService.create (handleAddAttendance): INSERT of a record for an
\* enrollment and a day.
CreateAttendance(uid, e, date, status) ==
    /\ Cardinality(attendanceTable) < MaxAttendanceRows
    /\ e \in student_enrollments
    /\ \E p \in profiles : p.id = uid
    /\ LET row == [id |-> freshAttendanceId, enrollment_id |-> e.id, teacher_id |-> uid,
                   date |-> date, status |-> status]
           allowed == MayInsert(uid, "attendance", row)
       IN  /\ request' = Request(uid, "INSERT", "attendance", row, allowed)
           /\ attendanceTable' = IF allowed /\ ~attendanceTaken(attendanceTable, row)
                                 THEN attendanceTable \cup {row} ELSE attendanceTable
    /\ UNCHANGED <<profiles, gradesTable, now, dbVars, uiVars, aggVars, genVars, otherVars>>

\* attendanceService.update: UPDATE of the day and the status of a record.
UpdateAttendance(uid, a, date, status) ==
    /\ a \in attendanceTable
    /\ LET new == [a EXCEPT !.date = date, !.status = status]
           allowed == MayUpdate(uid, "attendance", a, new)
       IN  /\ new # a
           /\ request' = Request(uid, "UPDATE", "attendance", new, allowed)
           /\ attendanceTable' = IF allowed /\ ~attendanceTaken(attendanceTable, new)
                                 THEN (attendanceTable \ {a}) \cup {new} ELSE attendanceTable
    /\ UNCHANGED <<profiles, gradesTable, now, dbVars, uiVars, aggVars, genVars, otherVars>>

\* attendanceService.delete: DELETE of a record.
DeleteAttendance(uid, a) ==
    /\ a \in attendanceTable
    /\ LET allowed == MayDelete(uid, "attendance", a)
       IN  /\ request' = Request(uid, "DELETE", "attendance", a, allowed)
           /\ attendanceTable' = IF allowed THEN attendanceTable \ {a} ELSE attendanceTable
    /\ UNCHANGED <<profiles, gradesTable, now, dbVars, uiVars, aggVars, genVars, otherVars>>

\* profileService.update: UPDATE of the role of a profile.
UpdateProfile(uid, target, role) ==
    /\ target \in profiles
    /\ target.role # role
    /\ LET new == [target EXCEPT !.role = role]
           allowed == MayUpdate(uid, "profiles", target, new)
       IN  /\ request' = Request(uid, "UPDATE", "profiles", target, allowed)
           /\ profiles' = IF allowed THEN (profiles \ {target}) \cup {new} ELSE profiles
    /\ UNCHANGED <<gradesTable, attendanceTable, now, dbVars, uiVars, aggVars, genVars, otherVars>>

\* The rows left when the classes in gone are deleted: their enrollments go
\* with them (ON DELETE CASCADE), and the grades and attendance of those.
enrollmentsWithout(gone) == {e \in student_enrollments : e.class_id \notin gone}
recordsWithout(table, gone) ==
    {r \in table : \E e \in enrollmentsWithout(gone) : e.id = r.enrollment_id}

\* subjectService.create / teacherClassService.createClass: INSERT of a class
\* whose teacher_id the caller sends.  class_code is UNIQUE.
InsertClass(uid, teacherId, rs) ==
    /\ Cardinality(teacher_classes) < MaxClasses
    /\ \E p \in profiles : p.id = teacherId
    /\ LET row == [id |-> freshClassId, teacher_id |-> teacherId,
                   code |-> generateClassCode(rs), is_active |-> TRUE]
           allowed == MayInsert(uid, "subjects", row)
       IN  /\ request' = Request(uid, "INSERT", "subjects", row, allowed)
           /\ teacher_classes' = IF allowed /\ ~classCodeTaken(row.code)
                                 THEN teacher_classes \cup {row} ELSE teacher_classes
    /\ UNCHANGED <<profiles, gradesTable, attendanceTable, now, student_enrollments,
                   uiVars, aggVars, genVars, otherVars>>

\* subjectService.update / teacherClassService.updateClass: UPDATE of the
\* columns teacher_id and is_active of a class.
UpdateClass(uid, c, teacherId, active) ==
    /\ c \in teacher_classes
    /\ \E p \in profiles : p.id = teacherId
    /\ LET new == [c EXCEPT !.teacher_id = teacherId, !.is_active = active]
           allowed == MayUpdate(uid, "subjects", c, new)
       IN  /\ new # c
           /\ request' = Request(uid, "UPDATE", "subjects", c, allowed)
           /\ teacher_classes' = IF allowed THEN (teacher_classes \ {c}) \cup {new}
                                 ELSE teacher_classes
    /\ UNCHANGED <<profiles, gradesTable, attendanceTable, now, student_enrollments,
                   uiVars, aggVars, genVars, otherVars>>

\* subjectService.delete / teacherClassService.deleteClass: DELETE of a class.
DeleteClass(uid, c) ==
    /\ c \in teacher_classes
    /\ LET allowed == MayDelete(uid, "subjects", c)
       IN  /\ request' = Request(uid, "DELETE", "subjects", c, allowed)
           /\ IF allowed
              THEN /\ teacher_classes' = teacher_classes \ {c}
                   /\ student_enrollments' = enrollmentsWithout({c.id})
                   /\ gradesTable' = recordsWithout(gradesTable, {c.id})
                   /\ attendanceTable' = recordsWithout(attendanceTable, {c.id})
              ELSE UNCHANGED <<teacher_classes, student_enrollments, gradesTable,
                               attendanceTable>>
    /\ UNCHANGED <<profiles, now, uiVars, aggVars, genVars, otherVars>>


(***************************************************************************)
(* The teacher dashboard: the class list, the class and the tab shown, and *)
(* the grades and attendance of the enrollments of the class shown.        *)
(***************************************************************************)
\* useState<string | null>(null)
NoClass == "none"
\* useState<Record<string, Grade[]>>({})
NoRecords == [e \in {} |-> {}]
Tabs == {"grades", "attendance"}

\* The teacher signed in at the dashboard.
DashboardTeacher == "tina"

\* subjectService.getTeacherClasses and, per class, getSubjectEnrollments.
loadedClasses ==
    {[id |-> c.id,
      enrollments |-> {e.id : e \in {x \in student_enrollments : x.class_id = c.id}}] :
        c \in {x \in teacher_classes : x.teacher_id = DashboardTeacher}}

\* gradeService.getEnrollmentGrades / attendanceService.getEnrollmentAttendance
\* for each enrollment of the class.
recordsOf(table, enrollments) ==
    [e \in enrollments |-> {r \in table : r.enrollment_id = e}]

\* useEffect([selectedClass, activeTab]): loadEnrollmentData is called with
\* the class list, the class and the tab of the render; it returns at once
\* when there is no class or the class is not in the list.
startedLoads(list, class, tab) ==
    IF class = NoClass THEN {}
    ELSE {[enrollments |-> c.enrollments, class |-> class, tab |-> tab] :
              c \in {x \in list : x.id = class}}

\* loadClasses: the list is set, and the first class is selected when none
\* is.  The list is ordered by a column the rows here do not carry (created_at), so
\* any class may be the first.
LoadClasses ==
    /\ classes' = loadedClasses
    /\ IF loadedClasses # {} /\ selectedClass = NoClass
       THEN \E first \in loadedClasses :
               /\ selectedClass' = first.id
               /\ loads' = loads \cup startedLoads(loadedClasses, first.id, activeTab)
       ELSE UNCHANGED <<selectedClass, loads>>
    /\ UNCHANGED <<activeTab, enrollmentGrades, enrollmentAttendance>>
    /\ UNCHANGED <<now, dbVars, uiVars, aggVars, genVars, rlsVars, evalStack, adVars>>

\* onClick of a class card: setSelectedClass(classItem.id).
SelectClass(c) ==
    /\ c \in classes
    /\ c.id # selectedClass
    /\ selectedClass' = c.id
    /\ loads' = loads \cup startedLoads(classes, c.id, activeTab)
    /\ UNCHANGED <<classes, activeTab, enrollmentGrades, enrollmentAttendance>>
    /\ UNCHANGED <<now, dbVars, uiVars, aggVars, genVars, rlsVars, evalStack, adVars>>

\* onClick of a tab: setActiveTab(tab).
SelectTab(tab) ==
    /\ tab # activeTab
    /\ activeTab' = tab
    /\ loads' = loads \cup startedLoads(classes, selectedClass, tab)
    /\ UNCHANGED <<classes, selectedClass, enrollmentGrades, enrollmentAttendance>>
    /\ UNCHANGED <<now, dbVars, uiVars, aggVars, genVars, rlsVars, evalStack, adVars>>

\* A loadEnrollmentData call returns: the map it built is put into the state.
\* Calls for the same class and tab read the same rows and are kept once.
CompleteLoad(l) ==
    /\ l \in loads
    /\ loads' = loads \ {l}
    /\ IF l.tab = "grades"
       THEN /\ enrollmentGrades' = recordsOf(gradesTable, l.enrollments)
            /\ UNCHANGED enrollmentAttendance
       ELSE /\ enrollmentAttendance' = recordsOf(attendanceTable, l.enrollments)
            /\ UNCHANGED enrollmentGrades
    /\ UNCHANGED <<classes, selectedClass, activeTab>>
    /\ UNCHANGED <<now, dbVars, uiVars, aggVars, genVars, rlsVars, evalStack, adVars>>

(***************************************************************************)
(* The admin dashboard: handleCreateUser.                                  *)
(***************************************************************************)
NoUser == "none"
\* The addresses typed into the new-user dialog: one already registered, and
\* new ones.
NewUsers == {"nora", "omar", "pia"}

\* onClick of "Add User": setShowUserModal(true)
OpenUserModal ==
    /\ createUserPc = "idle"
    /\ ~showUserModal
    /\ showUserModal' = TRUE
    /\ userAlert' = FALSE
    /\ UNCHANGED <<authUsers, session, signedUp, createUserPc>>
    /\ UNCHANGED <<now, dbVars, uiVars, aggVars, genVars, rlsVars, evalStack, tdVars>>

\* handleCreateUser: supabase.auth.signUp answers.  A registered address is
\* an error, which is thrown and ends in the alert.  Otherwise the identity
\* is registered; where sign-ups need no confirmation the client is signed
\* in as the new identity (signsIn), elsewhere it keeps its session.
SignUp(id, signsIn) ==
    /\ showUserModal
    /\ createUserPc = "idle"
    /\ IF id \in authUsers
       THEN /\ userAlert' = TRUE
            /\ UNCHANGED <<authUsers, session, signedUp, createUserPc>>
       ELSE /\ authUsers' = authUsers \cup {id}
            /\ session' = IF signsIn THEN id ELSE session
            /\ signedUp' = id
            /\ createUserPc' = "insert"
            /\ userAlert' = FALSE
    /\ UNCHANGED showUserModal
    /\ UNCHANGED <<now, dbVars, uiVars, aggVars, genVars, rlsVars, evalStack, tdVars>>

\* handleCreateUser: the insert into profiles answers; its result is not
\* read.  The dialog is closed.
InsertUserProfile(role) ==
    /\ createUserPc = "insert"
    /\ LET row == [id |-> signedUp, role |-> role]
           allowed == MayInsert(session, "profiles", row)
       IN  /\ request' = Request(session, "INSERT", "profiles", row, allowed)
           /\ profiles' = IF allowed /\ ~\E p \in profiles : p.id = row.id
                          THEN profiles \cup {row} ELSE profiles
    /\ showUserModal' = FALSE
    /\ createUserPc' = "idle"
    /\ UNCHANGED <<authUsers, session, signedUp, userAlert>>
    /\ UNCHANGED <<gradesTable, attendanceTable, now, dbVars, uiVars, aggVars, genVars, evalStack, tdVars>>

(***************************************************************************)
(* The rows the aggregation layer is given.  The grades table admits       *)
(* grade_value >= 0, max_value > 0 and 0 <= weight <= 1.                   *)
(***************************************************************************)
Grades ==
    {[grade_value |-> Num(v), max_value |-> Num(m), weight |-> parseFloat(k, WeightDen)] :
        v \in 0..MaxPoints, m \in 1..MaxPoints, k \in 0..WeightDen}

\* step="0.01" of the points fields of the grade form.
PointStep == 100

\* Grades whose points were typed with two decimals.
DecimalGrades ==
    {[grade_value |-> parseFloat(v, PointStep), max_value |-> parseFloat(m, PointStep),
      weight |-> parseFloat(k, WeightDen)] :
        v \in 0..MaxHundredths, m \in 1..MaxHundredths, k \in {1, WeightDen}}

\* The grade list of the documented example.
ExampleGrades ==
    << [grade_value |-> Num(80), max_value |-> Hundred, weight |-> Num(1)],
       [grade_value |-> Num(45), max_value |-> Num(50), weight |-> Num(1)] >>

RECURSIVE SeqsUpTo(_, _)
SeqsUpTo(S, n) ==
    IF n = 0 THEN {<<>>}
    ELSE LET shorter == SeqsUpTo(S, n - 1)
         IN  shorter \cup {Append(s, x) : s \in {t \in shorter : Len(t) = n - 1}, x \in S}

GradeLists == SeqsUpTo(Grades, MaxGrades)
AttendanceLists == SeqsUpTo({[status |-> st] : st \in Statuses}, MaxRecords)

(***************************************************************************)
(* The student dashboard computes both figures for an enrollment.          *)
(***************************************************************************)
ComputeAverage ==
    /\ ~averageDone
    /\ average' = calculateAverage(grades)
    /\ averageDone' = TRUE
    /\ UNCHANGED <<grades, attendance, attendanceRate, rateDone, now, dbVars, uiVars, genVars, rlsVars, otherVars>>

ComputeAttendanceRate ==
    /\ ~rateDone
    /\ attendanceRate' = calculateAttendanceRate(attendance)
    /\ rateDone' = TRUE
    /\ UNCHANGED <<grades, average, averageDone, attendance, now, dbVars, uiVars, genVars, rlsVars, otherVars>>

\* generateClassCode is called.
GenerateClassCode ==
    /\ ~generatedCode.returned
    /\ generatedCode' = [returned |-> TRUE, code |-> generateClassCode(draws)]
    /\ UNCHANGED <<draws, createAlert, now, dbVars, uiVars, aggVars, rlsVars, otherVars>>

\* The store and the dashboards when the application is first used.
InitDashboards ==
    /\ evalStack = <<>>
    /\ classes = {}
    /\ selectedClass = NoClass
    /\ activeTab = "grades"
    /\ enrollmentGrades = NoRecords
    /\ enrollmentAttendance = NoRecords
    /\ loads = {}
    /\ authUsers = Identities
    /\ session = "root"
    /\ showUserModal = FALSE
    /\ userAlert = FALSE
    /\ signedUp = NoUser
    /\ createUserPc = "idle"
    /\ createAlert = [t \in Teachers |-> FALSE]
    /\ pc = [d \in Dashboards |-> "idle"]
    /\ showJoinModal = [d \in Dashboards |-> FALSE]
    /\ classCode = [d \in Dashboards |-> <<>>]
    /\ classData = [d \in Dashboards |-> {}]
    /\ joinError = [d \in Dashboards |-> NoError]

\* No student has joined a class yet.
InitStore ==
    /\ InitDashboards
    /\ student_enrollments = {}
    /\ profiles = InitialProfiles
    /\ gradesTable = {}
    /\ attendanceTable = {}
    /\ request = NoRequest

InitAverage ==
    /\ InitStore
    /\ teacher_classes = CreatedClasses
    /\ draws = <<>>
    /\ generatedCode = [returned |-> FALSE, code |-> <<>>]
    /\ now = [year |-> FirstYear, month |-> 0]
    /\ grades \in GradeLists
    /\ average = Zero
    /\ averageDone = FALSE
    /\ attendance = <<>>
    /\ attendanceRate = Zero
    /\ rateDone = TRUE

InitGradeSheet ==
    /\ InitStore
    /\ teacher_classes = CreatedClasses
    /\ draws = <<>>
    /\ generatedCode = [returned |-> FALSE, code |-> <<>>]
    /\ now = [year |-> FirstYear, month |-> 0]
    /\ grades \in SeqsUpTo(DecimalGrades, MaxGrades) \cup {ExampleGrades}
    /\ average = Zero
    /\ averageDone = FALSE
    /\ attendance = <<>>
    /\ attendanceRate = Zero
    /\ rateDone = TRUE

InitAttendance ==
    /\ InitStore
    /\ teacher_classes = CreatedClasses
    /\ draws = <<>>
    /\ generatedCode = [returned |-> FALSE, code |-> <<>>]
    /\ now = [year |-> FirstYear, month |-> 0]
    /\ grades = <<>>
    /\ average = Zero
    /\ averageDone = TRUE
    /\ attendance \in AttendanceLists
    /\ attendanceRate = Zero
    /\ rateDone = FALSE

NextAverage == ComputeAverage
NextAttendance == ComputeAttendanceRate

\* The application is first used in some month of FirstYear.
Init ==
    /\ InitStore
    /\ teacher_classes = CreatedClasses
    /\ draws = <<>>
    /\ generatedCode = [returned |-> FALSE, code |-> <<>>]
    /\ now \in {[year |-> FirstYear, month |-> m] : m \in 0..11}
    /\ grades = <<>>
    /\ average = Zero
    /\ averageDone = TRUE
    /\ attendance = <<>>
    /\ attendanceRate = Zero
    /\ rateDone = TRUE

Next ==
    \/ \E d \in Dashboards : OpenJoinModal(d)
    \/ \E d \in Dashboards : CancelJoinModal(d)
    \/ \E d \in Dashboards, text \in TypedCodes : TypeClassCode(d, text)
    \/ \E d \in Dashboards : SubmitJoin(d)
    \/ \E d \in Dashboards : LookupClass(d)
    \/ \E d \in Dashboards : CheckEnrolled(d)
    \/ \E d \in Dashboards : JoinClass(d)
    \/ \E e \in student_enrollments : LeaveClass(e)
    \/ \E c \in teacher_classes, active \in BOOLEAN : UpdateClassActive(c, active)
    \/ Tick

Spec == Init /\ [][Next]_vars

\* The join dialog with the typed variants of the codes, in one month.
InitJoinCodes ==
    /\ InitStore
    /\ teacher_classes = CreatedClasses
    /\ draws = <<>>
    /\ generatedCode = [returned |-> FALSE, code |-> <<>>]
    /\ now = [year |-> FirstYear, month |-> 0]
    /\ grades = <<>>
    /\ average = Zero
    /\ averageDone = TRUE
    /\ attendance = <<>>
    /\ attendanceRate = Zero
    /\ rateDone = TRUE

NextJoinCodes ==
    \/ \E d \in Dashboards : OpenJoinModal(d)
    \/ \E d \in Dashboards, text \in TypedVariants : TypeClassCode(d, text)
    \/ \E d \in Dashboards : SubmitJoin(d)
    \/ \E d \in Dashboards : LookupClass(d)
    \/ \E d \in Dashboards : CheckEnrolled(d)
    \/ \E d \in Dashboards : JoinClass(d)
    \/ \E c \in teacher_classes, active \in BOOLEAN : UpdateClassActive(c, active)

SpecJoinCodes == InitJoinCodes /\ [][NextJoinCodes]_vars
SpecAverage == InitAverage /\ [][NextAverage]_vars
SpecGradeSheet == InitGradeSheet /\ [][NextAverage]_vars
SpecAttendance == InitAttendance /\ [][NextAttendance]_vars

\* generateClassCode on every sequence of CodeLength results of Math.random().
InitClassCode ==
    /\ InitStore
    /\ teacher_classes = CreatedClasses
    /\ now = [year |-> FirstYear, month |-> 0]
    /\ grades = <<>>
    /\ average = Zero
    /\ averageDone = TRUE
    /\ attendance = <<>>
    /\ attendanceRate = Zero
    /\ rateDone = TRUE
    /\ draws \in [1..CodeLength -> RandomResults]
    /\ generatedCode = [returned |-> FALSE, code |-> <<>>]

NextClassCode == GenerateClassCode

\* Teachers create classes, and a student joins them by code.
InitClasses ==
    /\ InitStore
    /\ teacher_classes = {}
    /\ now = [year |-> FirstYear, month |-> 0]
    /\ grades = <<>>
    /\ average = Zero
    /\ averageDone = TRUE
    /\ attendance = <<>>
    /\ attendanceRate = Zero
    /\ rateDone = TRUE
    /\ draws = <<>>
    /\ generatedCode = [returned |-> FALSE, code |-> <<>>]

NextClasses ==
    \/ \E t \in Teachers, rs \in DrawSequences : CreateClass(t, rs)
    \/ \E c \in teacher_classes, active \in BOOLEAN : UpdateClassActive(c, active)
    \/ OpenJoinModal("tab1")
    \/ \E text \in TypedCodes \cup {c.code : c \in teacher_classes} :
          TypeClassCode("tab1", text)
    \/ SubmitJoin("tab1")
    \/ LookupClass("tab1")
    \/ CheckEnrolled("tab1")
    \/ JoinClass("tab1")

SpecClasses == InitClasses /\ [][NextClasses]_vars

\* Identities send statements to the migrated database.
InitDatabase ==
    /\ InitDashboards
    /\ teacher_classes = InitialClasses
    /\ student_enrollments = InitialEnrollments
    /\ profiles = InitialProfiles
    /\ gradesTable = InitialGrades
    /\ attendanceTable = InitialAttendance
    /\ request = NoRequest
    /\ now = [year |-> FirstYear, month |-> 0]
    /\ grades = <<>>
    /\ average = Zero
    /\ averageDone = TRUE
    /\ attendance = <<>>
    /\ attendanceRate = Zero
    /\ rateDone = TRUE
    /\ draws = <<>>
    /\ generatedCode = [returned |-> FALSE, code |-> <<>>]

\* The identities that send statements about grades and attendance: a student,
\* a teacher and the administrator.
GradeActors == {"alice", "tina", "root"}

NextGrades ==
    \/ \E uid \in GradeActors, g \in gradesTable : SelectGrade(uid, g)
    \/ \E uid \in GradeActors, e \in student_enrollments : InsertGrade(uid, e)
    \/ \E uid \in GradeActors, g \in gradesTable, value \in {Zero, Num(1)} :
          UpdateGrade(uid, g, value)
    \/ \E uid \in GradeActors, g \in gradesTable : DeleteGrade(uid, g)
    \/ \E uid \in GradeActors, a \in attendanceTable : SelectAttendance(uid, a)

NextEnrollments ==
    \/ \E uid \in Identities, table \in {"enrollments", "student_enrollments"},
          studentId \in {"alice", "bob"}, c \in teacher_classes :
            InsertEnrollment(uid, table, studentId, c)
    \/ \E c \in teacher_classes, active \in BOOLEAN : UpdateClassActive(c, active)

\* The identities that send statements about profiles.
ProfileActors == {"alice", "tina", "root", "nora"}

NextProfiles ==
    \/ \E uid \in ProfileActors, id \in {"alice", "nora"}, role \in Roles :
          InsertProfile(uid, id, role)
    \/ \E uid \in ProfileActors, target \in profiles :
          DeleteProfile(uid, target)

NextProfileUpdates ==
    \/ \E uid \in ProfileActors, id \in {"alice", "nora"}, role \in Roles :
          InsertProfile(uid, id, role)
    \/ \E uid \in ProfileActors, target \in profiles, role \in Roles :
          UpdateProfile(uid, target, role)

SpecProfileUpdates == InitDatabase /\ [][NextProfileUpdates]_vars

\* The numbers a statement about a grade carries: negative, zero, positive,
\* above one, and not a number.
MinusOne == <<-1, 1>>
GradeValues == {MinusOne, Zero, NaN}
MaxValues == {MinusOne, Zero, Num(1)}
Weights == {MinusOne, Zero, Num(1), Num(2), NaN}

\* A teacher enters and corrects grades.
NextGradeBook ==
    \/ \E e \in student_enrollments, gradeValue \in GradeValues, maxValue \in MaxValues,
          weight \in Weights : CreateGrade("tina", e, gradeValue, maxValue, weight)
    \/ \E g \in gradesTable, gradeValue \in GradeValues, maxValue \in MaxValues,
          weight \in Weights : UpdateGradeNumbers("tina", g, gradeValue, maxValue, weight)
    \/ \E g \in gradesTable : DeleteGrade("tina", g)

SpecGradeBook == InitDatabase /\ [][NextGradeBook]_vars

\* Statements arrive and their policies are evaluated.
NextPolicies ==
    \/ \E table \in Tables, cmd \in Commands : BeginEvaluation(table, cmd)
    \/ \E table \in Tables \cup {"teacher_classes"} : EvaluateSubquery(table)
    \/ FinishEvaluation

SpecPolicies == InitDatabase /\ [][NextPolicies]_vars

\* A teacher takes attendance.
AttendanceActors == {"tina"}

NextAttendanceLedger ==
    \/ \E uid \in AttendanceActors, e \in student_enrollments, date \in Dates,
          status \in {"present", "late"} : CreateAttendance(uid, e, date, status)
    \/ \E uid \in AttendanceActors, a \in attendanceTable, date \in Dates,
          status \in {"present", "late"} : UpdateAttendance(uid, a, date, status)
    \/ \E uid \in AttendanceActors, a \in attendanceTable : DeleteAttendance(uid, a)

SpecAttendanceLedger == InitDatabase /\ [][NextAttendanceLedger]_vars

\* The identities that send statements about classes.
ClassActors == {"alice", "tina", "root"}

NextSubjects ==
    \/ \E uid \in ClassActors, teacherId \in Teachers \cup {"alice"}, rs \in DrawSequences :
          InsertClass(uid, teacherId, rs)
    \/ \E uid \in ClassActors, c \in teacher_classes, teacherId \in Teachers,
          active \in BOOLEAN : UpdateClass(uid, c, teacherId, active)
    \/ \E uid \in ClassActors, c \in teacher_classes : DeleteClass(uid, c)

SpecSubjects == InitDatabase /\ [][NextSubjects]_vars
\* A teacher with two classes looks at them in the dashboard.
InitTeacherDashboard ==
    /\ InitDashboards
    /\ teacher_classes = InitialClasses \cup
          {[id |-> "c3", teacher_id |-> "tina", code |-> <<"Q", "R", "S", "4", "5", "6">>,
            is_active |-> TRUE]}
    /\ student_enrollments = InitialEnrollments \cup
          {[id |-> 3, student_id |-> "bob", class_id |-> "c3",
            academic_year |-> ToString(FirstYear), semester |-> "Spring"]}
    /\ profiles = InitialProfiles
    /\ gradesTable = InitialGrades \cup
          {[id |-> 2, enrollment_id |-> 1, teacher_id |-> "tina", grade_value |-> Num(1),
            max_value |-> Hundred, weight |-> Num(1)]}
    /\ attendanceTable = InitialAttendance
    /\ request = NoRequest
    /\ now = [year |-> FirstYear, month |-> 0]
    /\ grades = <<>>
    /\ average = Zero
    /\ averageDone = TRUE
    /\ attendance = <<>>
    /\ attendanceRate = Zero
    /\ rateDone = TRUE
    /\ draws = <<>>
    /\ generatedCode = [returned |-> FALSE, code |-> <<>>]

NextTeacherDashboard ==
    \/ LoadClasses
    \/ \E c \in classes : SelectClass(c)
    \/ \E tab \in Tabs : SelectTab(tab)
    \/ \E l \in loads : CompleteLoad(l)

SpecTeacherDashboard == InitTeacherDashboard /\ [][NextTeacherDashboard]_vars

\* The administrator adds users.
NextCreateUser ==
    \/ OpenUserModal
    \/ \E id \in NewUsers, signsIn \in BOOLEAN : SignUp(id, signsIn)
    \/ \E role \in Roles : InsertUserProfile(role)

SpecCreateUser == InitDatabase /\ [][NextCreateUser]_vars

SpecGrades == InitDatabase /\ [][NextGrades]_vars
SpecEnrollments == InitDatabase /\ [][NextEnrollments]_vars
SpecProfiles == InitDatabase /\ [][NextProfiles]_vars
SpecClassCode == InitClassCode /\ [][NextClassCode]_vars

(***************************************************************************)
(* Claims about the aggregation layer.                                     *)
(***************************************************************************)
\* The left-to-right sum of the numbers of a sequence.
RECURSIVE SumSeq(_)
SumSeq(xs) == IF Len(xs) = 0 THEN Zero ELSE FAdd(SumSeq(SubSeq(xs, 1, Len(xs) - 1)), xs[Len(xs)])

WeightsOf(gs) == [i \in 1..Len(gs) |-> gs[i].weight]
WeightedPercentagesOf(gs) ==
    [i \in 1..Len(gs) |->
        FMul(FMul(FDiv(gs[i].grade_value, gs[i].max_value), Num(100)), gs[i].weight)]

\* C1: for every grade list whose weights sum to a positive value,
\* calculateAverage returns the sum over the grades of
\* (grade_value / max_value) x 100 x weight, divided by the sum of the weights.
C1_WeightedMean ==
    (averageDone /\ SumSeq(WeightsOf(grades)) # Zero)
        => average = FDiv(SumSeq(WeightedPercentagesOf(grades)), SumSeq(WeightsOf(grades)))

\* Two grades of different positive weights and different percentages were averaged.
C1_Witness ==
    /\ averageDone
    /\ Len(grades) = 2
    /\ grades[1].weight # Zero /\ grades[2].weight # Zero
    /\ grades[1].weight # grades[2].weight
    /\ grades[1].grade_value # grades[2].grade_value
    /\ grades[1].max_value # grades[2].max_value
    /\ average # Zero

\* C2: calculateAverage returns 0 whenever the weights sum to 0 (the empty list,
\* and every list whose grades all have weight 0), and its result is never the
\* outcome of a division by a zero total weight.
C2_ZeroTotalWeight ==
    averageDone =>
        /\ (\A i \in 1..Len(grades) : grades[i].weight = Zero) => average = Zero
        /\ SumSeq(WeightsOf(grades)) = Zero => average = Zero
        /\ IsFinite(average)

\* A non-empty list of weight-0 grades with points on them was averaged.
C2_Witness ==
    /\ averageDone
    /\ Len(grades) = 2
    /\ \A i \in 1..2 : grades[i].weight = Zero /\ grades[i].grade_value # Zero
    /\ average = Zero

\* C3: for every grade list in which every grade has
\* 0 <= grade_value <= max_value, max_value > 0 and weight in [0,1], the result of
\* calculateAverage lies in the closed interval [0,100].
C3_AverageInRange ==
    (/\ averageDone
     /\ \A i \in 1..Len(grades) :
            /\ Leq(Zero, grades[i].grade_value)
            /\ Leq(grades[i].grade_value, grades[i].max_value)
            /\ grades[i].max_value # Zero
            /\ Leq(Zero, grades[i].weight) /\ Leq(grades[i].weight, Num(1)))
        => (Leq(Zero, average) /\ Leq(average, Num(100)))

RECURSIVE CountPresent(_)
CountPresent(as) ==
    IF as = <<>> THEN 0
    ELSE (IF Head(as).status = "present" THEN 1 ELSE 0) + CountPresent(Tail(as))

\* The list with every late or excused record turned into an absent one.
AsAbsent(as) ==
    [i \in 1..Len(as) |->
        IF as[i].status \in {"late", "excused"} THEN [as[i] EXCEPT !.status = "absent"]
        ELSE as[i]]

FourStatuses ==
    <<[status |-> "present"], [status |-> "absent"], [status |-> "late"], [status |-> "excused"]>>

\* C4: calculateAttendanceRate returns 0 for the empty list and otherwise
\* (records whose status is exactly 'present') / (records) x 100; 'late' and
\* 'excused' records weigh on the rate exactly as 'absent' ones do, and
\* [present, absent, late, excused] gives 25.
C4_AttendanceRate ==
    rateDone =>
        /\ attendance = <<>> => attendanceRate = Zero
        /\ attendance # <<>> =>
             attendanceRate =
                FMul(FDiv(Num(CountPresent(attendance)), Num(Len(attendance))), Num(100))
        /\ attendanceRate = calculateAttendanceRate(AsAbsent(attendance))
        /\ attendance = FourStatuses => attendanceRate = <<25, 1>>

\* The rate of [present, absent, late, excused] was computed.
C4_Witness == rateDone /\ attendance = FourStatuses /\ attendanceRate = <<25, 1>>

(***************************************************************************)
(* Claims about the join workflow.                                         *)
(***************************************************************************)
\* The term the wall clock is in, as the claims word it.
CurrentYear == ToString(now.year)
CurrentSemester == IF now.month \in {7, 8, 9, 10, 11} THEN "Fall" ELSE "Spring"

\* The student of dashboard d holds a row for class c in the current term / in
\* another term.
EnrolledThisTerm(d, c) ==
    \E e \in student_enrollments :
        /\ e.student_id = profile[d].id /\ e.class_id = c
        /\ e.academic_year = CurrentYear /\ e.semester = CurrentSemester
EnrolledOtherTerm(d, c) ==
    \E e \in student_enrollments :
        /\ e.student_id = profile[d].id /\ e.class_id = c
        /\ ~(e.academic_year = CurrentYear /\ e.semester = CurrentSemester)

\* The code dashboard d submitted is the code of a class that is not active.
SubmittedInactiveClass(d) ==
    \E c \in teacher_classes : c.code = submittedCode(d) /\ ~c.is_active

\* C5: a submission whose code belongs to a class with is_active = false ends
\* with the invalid-code outcome and inserts no enrollment row, whatever
\* enrollments the student holds.
C5_InactiveClassNotFound ==
    [][\A d \in Dashboards :
         (pc[d] = "lookup" /\ pc'[d] # "lookup" /\ SubmittedInactiveClass(d))
            => /\ pc'[d] = "idle"
               /\ joinError'[d] = InvalidCode
               /\ student_enrollments' = student_enrollments]_vars

\* A student enrolled in a class that was closed since submitted its code and
\* was shown the invalid-code message.
C5_Witness ==
    \E d \in Dashboards :
        /\ pc[d] = "idle" /\ joinError[d] = InvalidCode
        /\ \E c \in teacher_classes :
              /\ c.code = submittedCode(d) /\ ~c.is_active
              /\ \E e \in student_enrollments :
                    e.student_id = profile[d].id /\ e.class_id = c.id

\* C6: a student who holds an enrollment of the current term in a class and
\* submits the class's code again is told ALREADY_ENROLLED, and no second row
\* is inserted.
C6_SecondJoinAlreadyEnrolled ==
    [][\A d \in Dashboards :
         (pc[d] = "check" /\ pc'[d] # "check" /\ EnrolledThisTerm(d, classId(d)))
            => /\ pc'[d] = "idle"
               /\ joinError'[d] = AlreadyEnrolled
               /\ student_enrollments' = student_enrollments]_vars

\* C7: a student who holds an enrollment in a class for another term only, and
\* submits the class's code, is not told ALREADY_ENROLLED or an error: the
\* workflow goes on to insert the row of the new term.
C7_JoinInOtherTerm ==
    [][\A d \in Dashboards :
         (/\ pc[d] = "check" /\ pc'[d] # "check"
          /\ EnrolledOtherTerm(d, classId(d))
          /\ ~EnrolledThisTerm(d, classId(d)))
            => /\ pc'[d] = "join"
               /\ joinError'[d] = NoError]_vars

\* C8: no two enrollment rows share (student_id, class_id, academic_year,
\* semester), in every reachable state.
C8_UniqueEnrollment ==
    \A e1, e2 \in student_enrollments :
        (/\ e1.student_id = e2.student_id /\ e1.class_id = e2.class_id
         /\ e1.academic_year = e2.academic_year /\ e1.semester = e2.semester)
            => e1 = e2

\* Two dashboards raced within the first term: one row was inserted, and the
\* other dashboard's submission failed (no second term has begun, so its check
\* saw no row and the failure is the rejected insert).
C8_Witness ==
    /\ now.year = FirstYear /\ now.month <= 6
    /\ Cardinality(student_enrollments) = 1
    /\ \E d1, d2 \in Dashboards :
          /\ d1 # d2
          /\ pc[d1] = "idle" /\ ~showJoinModal[d1]
          /\ pc[d2] = "idle" /\ joinError[d2] = JoinFailed

\* C9: an insert rejected by the uniqueness constraint ends the attempt with
\* the ALREADY_ENROLLED outcome, not with the generic failure.
C9_RejectedInsertAlreadyEnrolled ==
    [][\A d \in Dashboards :
         (pc[d] = "join" /\ pc'[d] # "join" /\ EnrolledThisTerm(d, classId(d)))
            => joinError'[d] = AlreadyEnrolled]_vars

\* C10: every enrollment row written carries the calendar year of the wall
\* clock and the semester 'Fall' when the zero-indexed month is >= 7, 'Spring'
\* otherwise.
C10_TermFromClock ==
    [][\A e \in student_enrollments' \ student_enrollments :
          /\ e.academic_year = ToString(now.year)
          /\ now.month \in {0, 1, 2, 3, 4, 5, 6} => e.semester = "Spring"
          /\ now.month \in {7, 8, 9, 10, 11} => e.semester = "Fall"]_vars

\* In August a row of the fall term of the running year stands beside a row
\* of its spring term.
C10_Witness ==
    /\ now.month = 7
    /\ \E e1, e2 \in student_enrollments :
          /\ e1.academic_year = ToString(now.year) /\ e1.semester = "Fall"
          /\ e2.academic_year = ToString(now.year) /\ e2.semester = "Spring"

(***************************************************************************)
(* Claims about class codes.                                               *)
(***************************************************************************)
Letters == {"A", "B", "C", "D", "E", "F", "G", "H", "I", "J", "K", "L", "M",
            "N", "O", "P", "Q", "R", "S", "T", "U", "V", "W", "X", "Y", "Z"}
DigitChars == {"0", "1", "2", "3", "4", "5", "6", "7", "8", "9"}

\* C11: every value generateClassCode returns, whatever the random draws, has
\* exactly 6 characters, each of them one of A-Z and 0-9.
C11_ClassCodeShape ==
    generatedCode.returned =>
        /\ Len(generatedCode.code) = 6
        /\ \A i \in 1..Len(generatedCode.code) :
              generatedCode.code[i] \in Letters \cup DigitChars

\* A code was generated from draws at both ends of the range of Math.random().
C11_Witness ==
    /\ generatedCode.returned
    /\ draws[1] = leastRandom /\ generatedCode.code[1] = "A"
    /\ draws[2] = greatestRandom /\ generatedCode.code[2] = "9"
    /\ Len(generatedCode.code) = 6

\* C12: after any sequence of class creations no two classes have the same
\* join code; a creation whose generated code is already taken is rejected and
\* creates no class.
C12_UniqueClassCode ==
    /\ \A c1, c2 \in teacher_classes : c1.code = c2.code => c1 = c2
    /\ \A t \in Teachers :
          createAlert[t] => \E c \in teacher_classes : c.code = generatedCode.code

\* A teacher's creation drew the code of another teacher's class and ended in
\* the alert; the registry holds the one class.
C12_Witness ==
    /\ createAlert["tom"]
    /\ Cardinality(teacher_classes) = 1
    /\ \E c \in teacher_classes : c.teacher_id = "tina" /\ c.code = generatedCode.code

C14_DistinctMessages ==
    [][\A d \in Dashboards :
         /\ (/\ pc[d] = "lookup" /\ pc'[d] # "lookup"
             /\ ~\E c \in teacher_classes : c.is_active /\ c.code = submittedCode(d))
               => (pc'[d] = "idle" /\ joinError'[d] # AlreadyEnrolled)
         /\ (/\ pc[d] = "check" /\ pc'[d] # "check"
             /\ \E e \in student_enrollments :
                   e.student_id = profile[d].id /\ e.class_id = classId(d))
               => (pc'[d] = "idle" /\ joinError'[d] # InvalidCode)]_vars

\* One dashboard shows the already-enrolled message while the other shows the
\* invalid-code message.
C14_Witness ==
    /\ pc["tab1"] = "idle" /\ joinError["tab1"] = AlreadyEnrolled
    /\ pc["tab2"] = "idle" /\ joinError["tab2"] = InvalidCode
    /\ student_enrollments # {}

(***************************************************************************)
(* Claims about row level security.                                        *)
(***************************************************************************)
\* The identity uid owns the class of the enrollment a grade or attendance
\* row belongs to.
OwnsClassOf(uid, row) ==
    \E e \in student_enrollments : \E c \in teacher_classes :
        e.id = row.enrollment_id /\ c.id = e.class_id /\ c.teacher_id = uid

\* The row belongs to an enrollment of the student uid.
OwnRecord(uid, row) ==
    \E e \in student_enrollments : e.id = row.enrollment_id /\ e.student_id = uid

\* C15: an insert of a grade by an identity whose role is student is denied,
\* whether or not the student is enrolled in the class the grade refers to.
C15_StudentGradeInsertDenied ==
    (request.cmd = "INSERT" /\ request.table = "grades" /\ request.role = "student")
        => ~request.allowed

\* C16: a teacher who reads, inserts, updates or deletes a grade of an
\* enrollment in a class the teacher does not own is denied.
C16_ForeignTeacherDenied ==
    (/\ request.table = "grades"
     /\ request.cmd \in {"SELECT", "INSERT", "UPDATE", "DELETE"}
     /\ request.role = "teacher"
     /\ ~OwnsClassOf(request.actor, request.row))
        => ~request.allowed

\* C17: a student reads a grade or an attendance row only when it belongs to
\* one of the student's own enrollments.
C17_StudentReadsOwnRecordsOnly ==
    (/\ request.cmd = "SELECT"
     /\ request.table \in {"grades", "attendance"}
     /\ request.role = "student"
     /\ request.allowed)
        => OwnRecord(request.actor, request.row)

\* C18: an enrollment insert is allowed only when the acting identity has
\* role student, the row's student_id is the acting identity and the class
\* is active.
C18_EnrollmentInsertConditions ==
    [][(/\ request' # request
        /\ request'.cmd = "INSERT"
        /\ request'.table \in {"enrollments", "student_enrollments"}
        /\ request'.allowed)
          => /\ request'.role = "student"
             /\ request'.row.student_id = request'.actor
             /\ \E c \in teacher_classes :
                   c.id = request'.row.class_id /\ c.is_active]_vars

\* C19: an identity that is not an admin inserts a profile only for itself
\* and only with role student.
C19_ProfileInsertSelfAsStudent ==
    (/\ request.cmd = "INSERT" /\ request.table = "profiles"
     /\ request.role # "admin"
     /\ request.allowed)
        => (request.row.id = request.actor /\ request.row.role = "student")

\* C20: a delete of a profile by a teacher or a student is denied and leaves
\* the profile in place.
C20_ProfileDeleteAdminOnly ==
    [][(/\ request' # request
        /\ request'.cmd = "DELETE" /\ request'.table = "profiles"
        /\ request'.role \in {"teacher", "student"})
          => (~request'.allowed /\ profiles' = profiles)]_vars

(***************************************************************************)
(* Claims about the tables' policies and constraints.                      *)
(***************************************************************************)
\* C21: a class is inserted only by a teacher with teacher_id equal to the
\* acting identity or by an admin, and is updated or deleted only by its
\* owning teacher or an admin.
C21_ClassOwnership ==
    (request.table = "subjects" /\ request.allowed)
        => \/ request.role = "admin"
           \/ /\ request.cmd \in {"INSERT", "UPDATE", "DELETE"}
              /\ request.role = "teacher"
              /\ request.row.teacher_id = request.actor

\* C22: no profile update sent by a student or a teacher changes a role:
\* every profile keeps the role it had.
C22_RoleImmutable ==
    [][(/\ request' # request
        /\ request'.cmd = "UPDATE" /\ request'.table = "profiles"
        /\ request'.role \in {"student", "teacher"})
          => \A p \in profiles : \E q \in profiles' : q.id = p.id /\ q.role = p.role]_vars

\* C23: at most one attendance record exists for each (enrollment_id,
\* date), and a create for an enrollment and date that already has a record
\* leaves table attendance unchanged.
C23_OneRecordPerDay ==
    /\ [](\A a, b \in attendanceTable :
             (a.enrollment_id = b.enrollment_id /\ a.date = b.date) => a = b)
    /\ [][(/\ request' # request
            /\ request'.cmd = "INSERT" /\ request'.table = "attendance"
            /\ \E a \in attendanceTable :
                  /\ a.enrollment_id = request'.row.enrollment_id
                  /\ a.date = request'.row.date)
              => attendanceTable' = attendanceTable]_vars

\* A create for a day that has a record was sent and stored nothing, and an
\* enrollment has a record on each day.
C23_Witness ==
    /\ request.cmd = "INSERT" /\ request.table = "attendance" /\ request.allowed
    /\ request.row \notin attendanceTable
    /\ \E a \in attendanceTable :
          a.enrollment_id = request.row.enrollment_id /\ a.date = request.row.date
    /\ \E a, b \in attendanceTable : a.enrollment_id = b.enrollment_id /\ a.date # b.date

\* The row violates one of the bounds grade_value >= 0, max_value > 0,
\* 0 <= weight <= 1.
OutOfBounds(row) ==
    \/ row.grade_value # Null /\ ~Leq(Zero, row.grade_value)
    \/ row.max_value # Null /\ Leq(row.max_value, Zero)
    \/ row.weight # Null /\ ~(Leq(Zero, row.weight) /\ Leq(row.weight, Num(1)))

\* C24: every stored grade has grade_value >= 0, max_value > 0 and
\* 0 <= weight <= 1, and a create or update whose row violates one of the
\* bounds stores nothing.
C24_GradeBounds ==
    /\ [](\A g \in gradesTable :
             /\ g.grade_value # Null /\ Leq(Zero, g.grade_value)
             /\ g.max_value # Null /\ ~Leq(g.max_value, Zero)
             /\ g.weight # Null /\ Leq(Zero, g.weight) /\ Leq(g.weight, Num(1)))
    /\ [][(/\ request' # request
            /\ request'.table = "grades" /\ request'.cmd \in {"INSERT", "UPDATE"}
            /\ OutOfBounds(request'.row))
              => gradesTable' = gradesTable]_vars

\* C25: the evaluation of the policies never enters a table whose policies
\* are already being evaluated, so it ends.
C25_NoPolicyReentry == ~reentered

(***************************************************************************)
(* Claims about the join workflow.                                         *)
(***************************************************************************)
\* The text between the first and the last character that is not a blank.
Core(text) ==
    LET solid == {i \in 1..Len(text) : text[i] # " "}
    IN  IF solid = {} THEN <<>>
        ELSE LET first == CHOOSE i \in solid : \A j \in solid : i <= j
                 last == CHOOSE i \in solid : \A j \in solid : j <= i
             IN  [k \in 1..(last - first + 1) |-> text[first + k - 1]]

\* Two characters are one letter in either case, or the same character.
SameLetter(x, y) ==
    x = y \/ \E k \in 1..Len(LowerCase) : {x, y} = {LowerCase[k], UpperCase[k]}

\* Two texts differ only in letter case or in the blanks around them.
DifferOnlyInCaseOrBlanks(s, t) ==
    /\ Len(Core(s)) = Len(Core(t))
    /\ \A i \in 1..Len(Core(s)) : SameLetter(Core(s)[i], Core(t)[i])

\* What handleJoinClass looks up when text was typed into the field.
LookedUp(text) == toUpperCase(trim(toUpperCase(text)))

\* C26: two typed codes that differ only in letter case or in surrounding
\* blanks are looked up as the same upper-case, trimmed code, and the lookup
\* of a dashboard answers the same for every such variant of its field.
C26_CaseInsensitiveJoin ==
    /\ \A s, t \in TypedVariants :
          DifferOnlyInCaseOrBlanks(s, t) =>
              /\ LookedUp(s) = LookedUp(t)
              /\ LookedUp(s) = toUpperCase(Core(s))
    /\ \A d \in Dashboards : \A t \in TypedVariants :
          (pc[d] = "lookup" /\ DifferOnlyInCaseOrBlanks(classCode[d], t)) =>
              getClassByCode(submittedCode(d)) = getClassByCode(LookedUp(t))

\* One dashboard found the class with a code typed in mixed case, and the
\* other is looking up a code typed with a blank after it.
C26_Witness ==
    /\ pc["tab1"] = "check" /\ classCode["tab1"] = toUpperCase(<<"A", "b", "C", "1", "2", "3">>)
    /\ classData["tab1"] # {}
    /\ pc["tab2"] = "lookup" /\ classCode["tab2"] = <<"Z", "Z", "9", " ">>

\* The row is of the term the clock is in.
InCurrentTerm(e) ==
    /\ e.academic_year = ToString(now.year)
    /\ e.semester = semesterOf(now.month)

\* The class is found by its code, the check answers "not enrolled" and the
\* insert is accepted: handleJoinClass of the student ends in a new row.
JoinSucceeds(studentId, class) ==
    /\ getClassByCode(class.code).data = {class}
    /\ ~isEnrolled(studentId, class.id).error
    /\ ~isEnrolled(studentId, class.id).value
    /\ ~insertEnrollment(enrollmentRow(studentId, class.id)).error

\* C27: once an enrollment of the current term is deleted and its class is
\* active, the student's next submission of the class's code is accepted:
\* the check answers "not enrolled" and the insert creates a row.
C27_ReenterAfterLeave ==
    [][\A e \in student_enrollments : \A c \in teacher_classes :
          (LeaveClass(e) /\ InCurrentTerm(e) /\ c.id = e.class_id /\ c.is_active)
              => JoinSucceeds(e.student_id, c)']_vars

(***************************************************************************)
(* Claims about the average of a grade sheet.                              *)
(***************************************************************************)
Factors == {2, 3}

\* Grade i of the list with its points and its maximum multiplied by k.
Scaled(gs, i, v, m, k) ==
    [gs EXCEPT ![i].grade_value = parseFloat(k * v, PointStep),
               ![i].max_value = parseFloat(k * m, PointStep)]

\* C28: calculateAverage is a weighted mean of percentages: multiplying the
\* points and the maximum of any one grade by the same positive factor leaves
\* the result unchanged, and the example list gives 85.
C28_ScaleInvariantAverage ==
    averageDone =>
        /\ \A i \in 1..Len(grades) : \A v \in 0..MaxHundredths, m \in 1..MaxHundredths :
              \A k \in Factors :
                 (/\ grades[i].grade_value = parseFloat(v, PointStep)
                  /\ grades[i].max_value = parseFloat(m, PointStep))
                     => calculateAverage(Scaled(grades, i, v, m, k)) = average
        /\ grades = ExampleGrades => average = Num(85)

(***************************************************************************)
(* Claims about the teacher and the admin dashboard.                       *)
(***************************************************************************)
\* The enrollments of the class shown, as the class list holds them.
ShownEnrollments == UNION {c.enrollments : c \in {x \in classes : x.id = selectedClass}}

\* C29: once every load has returned, the map of the tab shown is the one of
\* the class shown: a load of an earlier selection that returns later does
\* not replace the result of the load of the later selection.
C29_LatestSelectionShown ==
    (loads = {} /\ selectedClass # NoClass) =>
        /\ activeTab = "grades"
              => enrollmentGrades = recordsOf(gradesTable, ShownEnrollments)
        /\ activeTab = "attendance"
              => enrollmentAttendance = recordsOf(attendanceTable, ShownEnrollments)

\* C30: handleCreateUser closes the dialog without its alert only when the
\* identity is registered and its profile row exists.
C30_CreateUserAllOrNothing ==
    [][\A role \in Roles :
          (InsertUserProfile(role) /\ ~showUserModal' /\ ~userAlert')
              => /\ signedUp \in authUsers'
                 /\ \E p \in profiles' : p.id = signedUp]_vars

====
